---- MODULE Spec2Model ----
(***************************************************************************)
(* Model of the identity-verification / permission-management core:        *)
(*   UserIdentity  (src/encapsulation hw/user_identity.py)                 *)
(*   AccountAccess (src/encapsulation hw/account_access.py)                *)
(*   SecureUser    (src/encapsulation hw/secure_user.py)                   *)
(*                                                                         *)
(* Python str values that the code only compares or interpolates           *)
(* (permission names, action tags, the username) are TLA+ strings and      *)
(* f-strings over them are \o concatenations.  Strings the code matches    *)
(* against a regular expression (email, phone) are sequences of one-       *)
(* character strings, and an f-string that interpolates one of them is     *)
(* the tuple of its parts.  The 'timestamp' key of the log entries         *)
(* (datetime.now().isoformat()) is read by no code path and is left out.   *)
(***************************************************************************)
EXTENDS Integers, Sequences, FiniteSets, TLC

VARIABLES identity, access, audit_log, ret, calls, threads, accounts, saved

vars == <<identity, access, audit_log, ret, calls, threads, accounts, saved>>

\* ------------------------------------------------------------------ bounds
\* the caller makes at most MaxCalls mutating calls, and reads between them
MaxCalls == 4

\* ------------------------------------------------------------ vocabularies
RESTRICTED_PERMISSIONS == {"TRANSFER", "WITHDRAW"}

\* Variant: the vocabulary has grown a name
ALLOWED_PERMISSIONS_extended ==
  {"VIEW_BALANCE", "VIEW_TRANSACTIONS", "TRANSFER", "WITHDRAW", "DEPOSIT", "UPDATE_PROFILE",
   "DELETE_DATABASE"}

ALLOWED_PERMISSIONS ==
  {"VIEW_BALANCE", "VIEW_TRANSACTIONS", "TRANSFER", "WITHDRAW", "DEPOSIT", "UPDATE_PROFILE"}

\* Python's None, where the code stores or passes it
None == "None"

\* the empty dict / the details=None default, both falsy in __log_action
NoDetails == <<>>

Range(s) == {s[i] : i \in 1..Len(s)}

\* ------------------------------------------------------- character classes
Lower ==
  {"a","b","c","d","e","f","g","h","i","j","k","l","m",
   "n","o","p","q","r","s","t","u","v","w","x","y","z"}

Upper ==
  {"A","B","C","D","E","F","G","H","I","J","K","L","M",
   "N","O","P","Q","R","S","T","U","V","W","X","Y","Z"}

Digit == {"0","1","2","3","4","5","6","7","8","9"}

\* [a-zA-Z0-9._%+-]
EmailLocalChars == Lower \cup Upper \cup Digit \cup {".", "_", "%", "+", "-"}

\* [a-zA-Z0-9.-]
EmailDomainChars == Lower \cup Upper \cup Digit \cup {".", "-"}

\* s[a..b] lies in class C
AllIn(s, a, b, C) == \A k \in a..b : s[k] \in C

\* Python's '$' (no re.MULTILINE): end of string, or just before a final newline
DollarEnds(s) == {Len(s)} \cup (IF Len(s) > 0 /\ s[Len(s)] = "\n" THEN {Len(s) - 1} ELSE {})

\* ------------------------------------------------------------ UserIdentity
\* ^[a-zA-Z0-9._%+-]+@[a-zA-Z0-9.-]+\.[a-zA-Z]{2,}$  under re.match
validate_email(email) ==
  \E n \in DollarEnds(email) :
    \E i \in 2..n : \E j \in (i + 2)..n :
      /\ AllIn(email, 1, i - 1, EmailLocalChars)
      /\ email[i] = "@"
      /\ AllIn(email, i + 1, j - 1, EmailDomainChars)
      /\ email[j] = "."
      /\ n - j >= 2
      /\ AllIn(email, j + 1, n, Lower \cup Upper)

\* ^\+\d{1,3}-\d{2,3}-\d{3,4}-\d{4,5}$  under re.match
validate_phone(phone) ==
  \E n \in DollarEnds(phone) :
    \E a \in 1..3, b \in 2..3, c \in 3..4, d \in 4..5 :
      /\ n = 1 + a + 1 + b + 1 + c + 1 + d
      /\ phone[1] = "+"
      /\ AllIn(phone, 2, 1 + a, Digit)
      /\ phone[2 + a] = "-"
      /\ AllIn(phone, 3 + a, 2 + a + b, Digit)
      /\ phone[3 + a + b] = "-"
      /\ AllIn(phone, 4 + a + b, 3 + a + b + c, Digit)
      /\ phone[4 + a + b + c] = "-"
      /\ AllIn(phone, 5 + a + b + c, n, Digit)

\* Variant: the history keeps only the newest entry
log_state_change_keeps_newest_only(self, action, description) ==
  [self EXCEPT !.state_history =
     <<[action |-> action,
        description |-> description,
        status |-> self.verification_status]>>]

log_state_change(self, action, description) ==
  [self EXCEPT !.state_history =
     Append(@, [action |-> action,
                description |-> description,
                status |-> self.verification_status])]

\* Variant: the address is stored before it is validated
set_email_assigns_before_validating(self, new_email) ==
  IF validate_email(new_email)
  THEN [self |-> log_state_change([self EXCEPT !.email = new_email],
                                  "EMAIL_CHANGED",
                                  <<"Email changed from ", self.email, " to ", new_email>>),
        raised |-> FALSE,
        error |-> <<>>]
  ELSE [self |-> [self EXCEPT !.email = new_email],
        raised |-> TRUE,
        error |-> <<"Invalid email format: ", new_email>>]

\* Variant: a changed address has to be verified again
set_email_resets_verification(self, new_email) ==
  IF validate_email(new_email)
  THEN [self |-> log_state_change([self EXCEPT !.email = new_email,
                                               !.verification_status = "UNVERIFIED"],
                                  "EMAIL_CHANGED",
                                  <<"Email changed from ", self.email, " to ", new_email>>),
        raised |-> FALSE,
        error |-> <<>>]
  ELSE [self |-> self,
        raised |-> TRUE,
        error |-> <<"Invalid email format: ", new_email>>]

\* Variant: a rejected address is recorded in the identity history
set_email_logs_rejection(self, new_email) ==
  IF validate_email(new_email)
  THEN [self |-> log_state_change([self EXCEPT !.email = new_email],
                                  "EMAIL_CHANGED",
                                  <<"Email changed from ", self.email, " to ", new_email>>),
        raised |-> FALSE,
        error |-> <<>>]
  ELSE [self |-> log_state_change(self, "EMAIL_REJECTED",
                                  <<"Invalid email format: ", new_email>>),
        raised |-> TRUE,
        error |-> <<"Invalid email format: ", new_email>>]

\* Result: the object after the call, and whether ValueError was raised (with its text)
set_email(self, new_email) ==
  IF validate_email(new_email)
  THEN [self |-> log_state_change([self EXCEPT !.email = new_email],
                                  "EMAIL_CHANGED",
                                  <<"Email changed from ", self.email, " to ", new_email>>),
        raised |-> FALSE,
        error |-> <<>>]
  ELSE [self |-> self,
        raised |-> TRUE,
        error |-> <<"Invalid email format: ", new_email>>]

\* Variant: the phone number is stored without validation
set_phone_number_unvalidated(self, phone) ==
  [self |-> log_state_change([self EXCEPT !.phone_number = phone],
                             "PHONE_SET",
                             <<"Phone number set to ", phone>>),
   raised |-> FALSE,
   error |-> <<>>]

\* Variant: the number is stored without its separators
set_phone_number_digits_only(self, phone) ==
  IF validate_phone(phone)
  THEN [self |-> log_state_change(
                   [self EXCEPT !.phone_number = SelectSeq(phone, LAMBDA ch : ch \in Digit)],
                   "PHONE_SET",
                   <<"Phone number set to ", phone>>),
        raised |-> FALSE,
        error |-> <<>>]
  ELSE [self |-> self,
        raised |-> TRUE,
        error |-> <<"Invalid phone format: ", phone>>]

set_phone_number(self, phone) ==
  IF validate_phone(phone)
  THEN [self |-> log_state_change([self EXCEPT !.phone_number = phone],
                                  "PHONE_SET",
                                  <<"Phone number set to ", phone>>),
        raised |-> FALSE,
        error |-> <<>>]
  ELSE [self |-> self,
        raised |-> TRUE,
        error |-> <<"Invalid phone format: ", phone>>]

\* Variant: a denied request returns False without recording the attempt
request_verification_silent_denial(self) ==
  IF self.verification_status = "UNVERIFIED"
  THEN [self |-> log_state_change([self EXCEPT !.verification_status = "PENDING"],
                                  "VERIFICATION_REQUESTED",
                                  "Status changed from UNVERIFIED to PENDING"),
        result |-> TRUE]
  ELSE [self |-> self, result |-> FALSE]

\* Variant: a request made while one is pending withdraws the pending request
request_verification_toggles(self) ==
  IF self.verification_status = "UNVERIFIED"
  THEN [self |-> log_state_change([self EXCEPT !.verification_status = "PENDING"],
                                  "VERIFICATION_REQUESTED",
                                  "Status changed from UNVERIFIED to PENDING"),
        result |-> TRUE]
  ELSE IF self.verification_status = "PENDING"
  THEN [self |-> log_state_change([self EXCEPT !.verification_status = "UNVERIFIED"],
                                  "VERIFICATION_REQUEST_DENIED",
                                  "Cannot request verification from PENDING state"),
        result |-> FALSE]
  ELSE [self |-> log_state_change(self,
                                  "VERIFICATION_REQUEST_DENIED",
                                  "Cannot request verification from "
                                     \o self.verification_status \o " state"),
        result |-> FALSE]

\* Result: the object after the call and the bool returned
UserIdentity_request_verification(self) ==
  IF self.verification_status = "UNVERIFIED"
  THEN [self |-> log_state_change([self EXCEPT !.verification_status = "PENDING"],
                                  "VERIFICATION_REQUESTED",
                                  "Status changed from UNVERIFIED to PENDING"),
        result |-> TRUE]
  ELSE [self |-> log_state_change(self,
                                  "VERIFICATION_REQUEST_DENIED",
                                  "Cannot request verification from "
                                     \o self.verification_status \o " state"),
        result |-> FALSE]

\* Variant: the guard tests "not yet VERIFIED" instead of "PENDING"
verify_without_request(self) ==
  IF self.verification_status # "VERIFIED"
  THEN [self |-> log_state_change([self EXCEPT !.verification_status = "VERIFIED"],
                                  "VERIFIED",
                                  "Status changed from PENDING to VERIFIED"),
        result |-> TRUE]
  ELSE [self |-> log_state_change(self,
                                  "VERIFICATION_DENIED",
                                  "Cannot verify from " \o self.verification_status \o " state"),
        result |-> FALSE]

UserIdentity_verify(self) ==
  IF self.verification_status = "PENDING"
  THEN [self |-> log_state_change([self EXCEPT !.verification_status = "VERIFIED"],
                                  "VERIFIED",
                                  "Status changed from PENDING to VERIFIED"),
        result |-> TRUE]
  ELSE [self |-> log_state_change(self,
                                  "VERIFICATION_DENIED",
                                  "Cannot verify from " \o self.verification_status \o " state"),
        result |-> FALSE]

\* UserIdentity(username, email, phone_number): the object, or the ValueError raised
UserIdentity_init(username, email, phone_number) ==
  LET blank == [username |-> username,
                email |-> None,
                phone_number |-> None,
                verification_status |-> "UNVERIFIED",
                state_history |-> <<>>]
      e == set_email(blank, email)
      p == set_phone_number(e.self, phone_number)
  IN  IF e.raised THEN [self |-> blank, raised |-> TRUE, error |-> e.error]
      ELSE IF p.raised THEN [self |-> blank, raised |-> TRUE, error |-> p.error]
      ELSE [self |-> log_state_change(p.self, "INITIALIZED", "User identity created"),
            raised |-> FALSE,
            error |-> <<>>]

\* ----------------------------------------------------------- AccountAccess
\* list.copy(): a new list holding the same element references
list_copy(items) == [kind |-> "own", items |-> items]

\* Variant: the entry holds self.__permissions itself, not a copy
log_permission_change_stores_list_itself(self, action, description) ==
  [self EXCEPT !.permission_history =
     Append(@, [action |-> action,
                description |-> description,
                current_permissions |-> [kind |-> "alias", of |-> "permissions"]])]

log_permission_change(self, action, description) ==
  [self EXCEPT !.permission_history =
     Append(@, [action |-> action,
                description |-> description,
                current_permissions |-> list_copy(self.permissions)])]

\* Variant: a new account starts with VIEW_BALANCE granted
AccountAccess_init_with_default_grant ==
  log_permission_change([permissions |-> <<"VIEW_BALANCE">>, permission_history |-> <<>>],
                        "INITIALIZED", "Account access created")

AccountAccess_init ==
  log_permission_change([permissions |-> <<>>, permission_history |-> <<>>],
                        "INITIALIZED", "Account access created")

\* Variant: list.pop() instead of list.remove(x)
ListRemove_pops_last(list, x) == SubSeq(list, 1, Len(list) - 1)

\* Variant: list.clear() instead of list.remove(x)
ListRemove_empties(list, x) == <<>>

\* list.remove(x): drops the first occurrence of x
ListRemove(list, x) ==
  LET i == CHOOSE k \in 1..Len(list) : list[k] = x /\ \A m \in 1..(k - 1) : list[m] # x
  IN  SubSeq(list, 1, i - 1) \o SubSeq(list, i + 1, Len(list))

\* the four outcomes of add_permission, shared by its variants below
AddOutcome(self, permission, tag) ==
  LET message == CASE tag = "ADD_FAILED" -> "Invalid permission: " \o permission
                   [] tag = "ADD_DUPLICATE" -> "Permission already granted: " \o permission
                   [] tag = "ADD_DENIED" ->
                        "Cannot grant '" \o permission \o "' - user must be VERIFIED"
                   [] tag = "ADD_SUCCESS" -> "Permission granted: " \o permission
                   [] tag = "ADD_FRONT" -> "Permission granted: " \o permission
  IN  CASE tag = "ADD_SUCCESS" ->
             [self |-> log_permission_change(
                         [self EXCEPT !.permissions = Append(@, permission)],
                         "ADD_SUCCESS", message),
              result |-> <<TRUE, message>>]
        [] tag = "ADD_FRONT" ->
             [self |-> log_permission_change(
                         [self EXCEPT !.permissions = <<permission>> \o @],
                         "ADD_SUCCESS", message),
              result |-> <<TRUE, message>>]
        [] OTHER ->
             [self |-> log_permission_change(self, tag, message),
              result |-> <<FALSE, message>>]

\* Variant: the vocabulary check is missing
add_permission_unchecked_name(self, permission, is_verified) ==
  IF permission \in Range(self.permissions)
  THEN AddOutcome(self, permission, "ADD_DUPLICATE")
  ELSE IF permission \in RESTRICTED_PERMISSIONS /\ ~is_verified
  THEN AddOutcome(self, permission, "ADD_DENIED")
  ELSE AddOutcome(self, permission, "ADD_SUCCESS")

\* Variant: the duplicate check is missing
add_permission_no_duplicate_check(self, permission, is_verified) ==
  IF permission \notin ALLOWED_PERMISSIONS
  THEN AddOutcome(self, permission, "ADD_FAILED")
  ELSE IF permission \in RESTRICTED_PERMISSIONS /\ ~is_verified
  THEN AddOutcome(self, permission, "ADD_DENIED")
  ELSE AddOutcome(self, permission, "ADD_SUCCESS")

\* Variant: the verification requirement is missing
add_permission_ungated(self, permission, is_verified) ==
  IF permission \notin ALLOWED_PERMISSIONS
  THEN AddOutcome(self, permission, "ADD_FAILED")
  ELSE IF permission \in Range(self.permissions)
  THEN AddOutcome(self, permission, "ADD_DUPLICATE")
  ELSE AddOutcome(self, permission, "ADD_SUCCESS")

\* Variant: insert(0, permission) instead of append(permission)
add_permission_at_front(self, permission, is_verified) ==
  IF permission \notin ALLOWED_PERMISSIONS
  THEN AddOutcome(self, permission, "ADD_FAILED")
  ELSE IF permission \in Range(self.permissions)
  THEN AddOutcome(self, permission, "ADD_DUPLICATE")
  ELSE IF permission \in RESTRICTED_PERMISSIONS /\ ~is_verified
  THEN AddOutcome(self, permission, "ADD_DENIED")
  ELSE AddOutcome(self, permission, "ADD_FRONT")

\* Variant: every permission of the vocabulary requires a verified user
add_permission_all_gated(self, permission, is_verified) ==
  IF permission \notin ALLOWED_PERMISSIONS
  THEN AddOutcome(self, permission, "ADD_FAILED")
  ELSE IF permission \in Range(self.permissions)
  THEN AddOutcome(self, permission, "ADD_DUPLICATE")
  ELSE IF ~is_verified
  THEN AddOutcome(self, permission, "ADD_DENIED")
  ELSE AddOutcome(self, permission, "ADD_SUCCESS")

\* Variant: the verification requirement is tested before the duplicate
add_permission_gate_before_duplicate(self, permission, is_verified) ==
  IF permission \notin ALLOWED_PERMISSIONS
  THEN AddOutcome(self, permission, "ADD_FAILED")
  ELSE IF permission \in RESTRICTED_PERMISSIONS /\ ~is_verified
  THEN AddOutcome(self, permission, "ADD_DENIED")
  ELSE IF permission \in Range(self.permissions)
  THEN AddOutcome(self, permission, "ADD_DUPLICATE")
  ELSE AddOutcome(self, permission, "ADD_SUCCESS")

\* Result: the object after the call and the (success, message) tuple returned
add_permission(self, permission, is_verified) ==
  IF permission \notin ALLOWED_PERMISSIONS
  THEN LET message == "Invalid permission: " \o permission
       IN  [self |-> log_permission_change(self, "ADD_FAILED", message),
            result |-> <<FALSE, message>>]
  ELSE IF permission \in Range(self.permissions)
  THEN LET message == "Permission already granted: " \o permission
       IN  [self |-> log_permission_change(self, "ADD_DUPLICATE", message),
            result |-> <<FALSE, message>>]
  ELSE IF permission \in RESTRICTED_PERMISSIONS /\ ~is_verified
  THEN LET message == "Cannot grant '" \o permission \o "' - user must be VERIFIED"
       IN  [self |-> log_permission_change(self, "ADD_DENIED", message),
            result |-> <<FALSE, message>>]
  ELSE LET message == "Permission granted: " \o permission
       IN  [self |-> log_permission_change(
                       [self EXCEPT !.permissions = Append(@, permission)],
                       "ADD_SUCCESS", message),
            result |-> <<TRUE, message>>]

\* Variant: removing an absent permission is reported as done
remove_permission_absent_succeeds(self, permission) ==
  IF permission \in Range(self.permissions)
  THEN LET message == "Permission revoked: " \o permission
       IN  [self |-> log_permission_change(
                       [self EXCEPT !.permissions = ListRemove(@, permission)],
                       "REMOVE_SUCCESS", message),
            result |-> <<TRUE, message>>]
  ELSE LET message == "Permission revoked: " \o permission
       IN  [self |-> log_permission_change(self, "REMOVE_SUCCESS", message),
            result |-> <<TRUE, message>>]

\* Variant: an absent permission is refused without a history entry
remove_permission_absent_unlogged(self, permission) ==
  IF permission \in Range(self.permissions)
  THEN LET message == "Permission revoked: " \o permission
       IN  [self |-> log_permission_change(
                       [self EXCEPT !.permissions = ListRemove(@, permission)],
                       "REMOVE_SUCCESS", message),
            result |-> <<TRUE, message>>]
  ELSE [self |-> self, result |-> <<FALSE, "Permission not found: " \o permission>>]

remove_permission(self, permission) ==
  IF permission \in Range(self.permissions)
  THEN LET message == "Permission revoked: " \o permission
       IN  [self |-> log_permission_change(
                       [self EXCEPT !.permissions = ListRemove(@, permission)],
                       "REMOVE_SUCCESS", message),
            result |-> <<TRUE, message>>]
  ELSE LET message == "Permission not found: " \o permission
       IN  [self |-> log_permission_change(self, "REMOVE_FAILED", message),
            result |-> <<FALSE, message>>]

AccountAccess_has_permission(self, permission) == permission \in Range(self.permissions)

\* Result: the object after the call and the count returned
clear_all_permissions(self) ==
  LET count == Len(self.permissions)
  IN  [self |-> log_permission_change([self EXCEPT !.permissions = <<>>],
                                      "CLEAR_ALL",
                                      "Cleared " \o ToString(count) \o " permissions"),
       result |-> count]

\* -------------------------------------------------------------- SecureUser
\* Variant: the entry overwrites the newest one instead of being appended
log_action_overwrites_last(log, ident, action, description, success, details) ==
  LET log_entry == [action |-> action,
                    description |-> description,
                    success |-> success,
                    user |-> ident.username,
                    verification_status |-> ident.verification_status]
      kept == IF Len(log) > 1 THEN SubSeq(log, 1, Len(log) - 1) ELSE log
  IN  Append(kept, IF details # NoDetails
                   THEN log_entry @@ [details |-> details]
                   ELSE log_entry)

\* Variant: only successful calls are audited
log_action_success_only(log, ident, action, description, success, details) ==
  LET log_entry == [action |-> action,
                    description |-> description,
                    success |-> success,
                    user |-> ident.username,
                    verification_status |-> ident.verification_status]
  IN  IF success
      THEN Append(log, IF details # NoDetails
                       THEN log_entry @@ [details |-> details]
                       ELSE log_entry)
      ELSE log

\* Variant: PENDING is taken for verified
is_verified_unless_unverified(ident) == ident.verification_status # "UNVERIFIED"

\* the flag grant_permission computes before delegating
is_verified_flag(ident) == ident.verification_status = "VERIFIED"

\* Variant: a failed call is logged under its own action tag
log_action_tags_failures(log, ident, action, description, success, details) ==
  LET log_entry == [action |-> IF success THEN action ELSE action \o "_FAILED",
                    description |-> description,
                    success |-> success,
                    user |-> ident.username,
                    verification_status |-> ident.verification_status]
  IN  Append(log, IF details # NoDetails
                  THEN log_entry @@ [details |-> details]
                  ELSE log_entry)

\* Variant: every entry is written with success = True
log_action_always_success(log, ident, action, description, success, details) ==
  LET log_entry == [action |-> action,
                    description |-> description,
                    success |-> TRUE,
                    user |-> ident.username,
                    verification_status |-> ident.verification_status]
  IN  Append(log, IF details # NoDetails
                  THEN log_entry @@ [details |-> details]
                  ELSE log_entry)

\* the audit log after __log_action; ident is self._identity when the entry is built
log_action(log, ident, action, description, success, details) ==
  LET log_entry == [action |-> action,
                    description |-> description,
                    success |-> success,
                    user |-> ident.username,
                    verification_status |-> ident.verification_status]
  IN  Append(log, IF details # NoDetails
                  THEN log_entry @@ [details |-> details]
                  ELSE log_entry)

\* what the caller got back from the last call
Returned(op, args, value) == [op |-> op, args |-> args, value |-> value]

\* ------------------------------------------------------------------ inputs
InitUsername == "alice"

InitEmail == <<"a", "@", "b", ".", "c", "o">>

InitPhone == <<"+", "1", "-", "5", "5", "5", "-", "1", "1", "1", "-", "2", "2", "2", "2">>

\* two unrestricted names, both restricted names, one name outside the vocabulary
PermissionInputs == {"VIEW_BALANCE", "DEPOSIT", "TRANSFER", "WITHDRAW", "DELETE_DATABASE"}

\* a well-formed address and a malformed one
EmailInputs ==
  { <<"n", "@", "b", ".", "i", "o">>,
    <<"n", "o", "-", "a", "t">> }

\* one caller, one account: no concurrent call frames, no second account
NoThreads == <<>>

NoAccounts == <<>>

\* the caller has saved no returned object
NothingSaved == <<>>

\* ------------------------------------------------------------ construction
Init ==
  LET made == UserIdentity_init(InitUsername, InitEmail, InitPhone)
  IN  /\ ~made.raised
      /\ identity = made.self
      /\ access = AccountAccess_init
      /\ audit_log = log_action(<<>>, made.self, "USER_CREATED",
                                "SecureUser created for " \o InitUsername, TRUE, NoDetails)
      /\ ret = Returned("__init__", <<InitUsername, InitEmail, InitPhone>>, None)
      /\ calls = 0
      /\ threads = NoThreads
      /\ accounts = NoAccounts
      /\ saved = NothingSaved

\* --------------------------------------------------------------- operations
grant_permission(permission) ==
  LET is_verified == is_verified_flag(identity)
      added == add_permission(access, permission, is_verified)
  IN  /\ calls < MaxCalls
      /\ access' = added.self
      /\ audit_log' = log_action(audit_log, identity, "GRANT_PERMISSION",
                                 "Attempted to grant '" \o permission \o "': " \o added.result[2],
                                 added.result[1],
                                 [permission |-> permission, verified |-> is_verified])
      /\ ret' = Returned("grant_permission", <<permission>>, added.result)
      /\ calls' = calls + 1
      /\ UNCHANGED <<identity, threads, accounts, saved>>

revoke_permission(permission) ==
  LET removed == remove_permission(access, permission)
  IN  /\ calls < MaxCalls
      /\ access' = removed.self
      /\ audit_log' = log_action(audit_log, identity, "REVOKE_PERMISSION",
                                 "Attempted to revoke '" \o permission \o "': " \o removed.result[2],
                                 removed.result[1],
                                 [permission |-> permission])
      /\ ret' = Returned("revoke_permission", <<permission>>, removed.result)
      /\ calls' = calls + 1
      /\ UNCHANGED <<identity, threads, accounts, saved>>

\* Variant: the audit entry is built before the request is delegated
request_verification_logs_before_delegating ==
  LET done == UserIdentity_request_verification(identity)
  IN  /\ calls < MaxCalls
      /\ identity' = done.self
      /\ audit_log' = log_action(audit_log, identity, "REQUEST_VERIFICATION",
                                 "Verification request: "
                                    \o (IF done.result THEN "successful" ELSE "failed"),
                                 done.result, NoDetails)
      /\ ret' = Returned("request_verification", <<>>, done.result)
      /\ calls' = calls + 1
      /\ UNCHANGED <<access, threads, accounts, saved>>

request_verification ==
  LET done == UserIdentity_request_verification(identity)
  IN  /\ calls < MaxCalls
      /\ identity' = done.self
      /\ audit_log' = log_action(audit_log, done.self, "REQUEST_VERIFICATION",
                                 "Verification request: "
                                    \o (IF done.result THEN "successful" ELSE "failed"),
                                 done.result, NoDetails)
      /\ ret' = Returned("request_verification", <<>>, done.result)
      /\ calls' = calls + 1
      /\ UNCHANGED <<access, threads, accounts, saved>>

\* Variant: a completed verification grants VIEW_BALANCE on its own
verify_identity_grants_default ==
  LET done == UserIdentity_verify(identity)
      added == add_permission(access, "VIEW_BALANCE", TRUE)
  IN  /\ calls < MaxCalls
      /\ identity' = done.self
      /\ access' = IF done.result THEN added.self ELSE access
      /\ audit_log' = log_action(audit_log, done.self, "VERIFY_IDENTITY",
                                 "Identity verification: "
                                    \o (IF done.result THEN "successful" ELSE "failed"),
                                 done.result, NoDetails)
      /\ ret' = Returned("verify_identity", <<>>, done.result)
      /\ calls' = calls + 1
      /\ UNCHANGED <<threads, accounts, saved>>

verify_identity ==
  LET done == UserIdentity_verify(identity)
  IN  /\ calls < MaxCalls
      /\ identity' = done.self
      /\ audit_log' = log_action(audit_log, done.self, "VERIFY_IDENTITY",
                                 "Identity verification: "
                                    \o (IF done.result THEN "successful" ELSE "failed"),
                                 done.result, NoDetails)
      /\ ret' = Returned("verify_identity", <<>>, done.result)
      /\ calls' = calls + 1
      /\ UNCHANGED <<access, threads, accounts, saved>>

update_email(new_email) ==
  LET done == set_email(identity, new_email)
  IN  /\ calls < MaxCalls
      /\ identity' = done.self
      /\ IF ~done.raised
         THEN /\ audit_log' = log_action(audit_log, done.self, "UPDATE_EMAIL",
                                         <<"Email updated to ", new_email>>, TRUE, NoDetails)
              /\ ret' = Returned("update_email", <<new_email>>,
                                 <<TRUE, "Email updated successfully">>)
         ELSE /\ audit_log' = log_action(audit_log, done.self, "UPDATE_EMAIL",
                                         <<"Failed to update email: ", done.error>>,
                                         FALSE, NoDetails)
              /\ ret' = Returned("update_email", <<new_email>>, <<FALSE, done.error>>)
      /\ calls' = calls + 1
      /\ UNCHANGED <<access, threads, accounts, saved>>

\* ---------------------------------------------------------- read accessors
\* What a caller receives is a reference.  A str or a bool is immutable and is
\* modelled by its value.  A list the caller receives is a handle: a new list of
\* its own ("own", with the element references it holds), or the account's list
\* itself ("alias").  The dict of the i-th audit entry is one object, created by
\* __log_action and never replaced in the list: Ref(i) is the reference to it.
Ref(i) == [ref |-> i]

\* the element references of self.__audit_log
AuditEntryRefs == [i \in 1..Len(audit_log) |-> Ref(i)]

\* Variant: the dict holds the account's permission list itself, not a copy
identity_status_value_live_permissions ==
  [username |-> identity.username,
   email |-> identity.email,
   phone |-> identity.phone_number,
   verification_status |-> identity.verification_status,
   permissions |-> [kind |-> "alias", of |-> "permissions"]]

identity_status_value ==
  [username |-> identity.username,
   email |-> identity.email,
   phone |-> identity.phone_number,
   verification_status |-> identity.verification_status,
   permissions |-> list_copy(access.permissions)]

has_permission(permission) ==
  /\ calls < MaxCalls
  /\ ret' = Returned("has_permission", <<permission>>,
                     AccountAccess_has_permission(access, permission))
  /\ UNCHANGED <<identity, access, audit_log, calls, threads, accounts, saved>>

\* Variant: return self.__permissions, without .copy()
get_permissions_returns_internal_list ==
  /\ calls < MaxCalls
  /\ ret' = Returned("get_permissions", <<>>, [kind |-> "alias", of |-> "permissions"])
  /\ UNCHANGED <<identity, access, audit_log, calls, threads, accounts, saved>>

get_permissions ==
  /\ calls < MaxCalls
  /\ ret' = Returned("get_permissions", <<>>, list_copy(access.permissions))
  /\ UNCHANGED <<identity, access, audit_log, calls, threads, accounts, saved>>

identity_status ==
  /\ calls < MaxCalls
  /\ ret' = Returned("identity_status", <<>>, identity_status_value)
  /\ UNCHANGED <<identity, access, audit_log, calls, threads, accounts, saved>>

get_audit_log ==
  /\ calls < MaxCalls
  /\ ret' = Returned("get_audit_log", <<>>, list_copy(AuditEntryRefs))
  /\ UNCHANGED <<identity, access, audit_log, calls, threads, accounts, saved>>

get_full_report ==
  /\ calls < MaxCalls
  /\ ret' = Returned("get_full_report", <<>>,
                     [identity |-> identity_status_value,
                      audit_log_entries |-> Len(audit_log),
                      last_action |-> IF Len(audit_log) > 0
                                      THEN Ref(Len(audit_log)) ELSE None])
  /\ UNCHANGED <<identity, access, audit_log, calls, threads, accounts, saved>>

Next ==
  \/ \E p \in PermissionInputs : grant_permission(p)
  \/ \E p \in PermissionInputs : revoke_permission(p)
  \/ request_verification
  \/ verify_identity
  \/ \E e \in EmailInputs : update_email(e)
  \/ \E p \in PermissionInputs : has_permission(p)
  \/ get_permissions
  \/ identity_status
  \/ get_audit_log
  \/ get_full_report

Spec == Init /\ [][Next]_vars

\* ------------------------------------------------- the caller's own actions
\* What the caller does with the object returned by the last call, between calls.
MaxCallerCalls == 2

MaxHeldLen == 4

CallerPermissionInputs == {"VIEW_BALANCE", "DEPOSIT"}

HoldsList == ret.op \in {"get_permissions", "get_audit_log", "identity_status"}

\* the list handle in the returned object
HeldList ==
  IF ret.op = "identity_status" THEN ret.value.permissions ELSE ret.value

WithHeldList(handle) ==
  IF ret.op = "identity_status"
  THEN [ret EXCEPT !.value.permissions = handle]
  ELSE [ret EXCEPT !.value = handle]

\* what the tests append: a permission name, or a dict
ForeignElement ==
  IF ret.op = "get_audit_log" THEN [malicious |-> "entry"] ELSE "ADMIN_ACCESS"

\* the contents of the list the handle denotes
HeldItems ==
  LET h == HeldList
  IN  IF h.kind = "own" THEN h.items
      ELSE IF h.of = "permissions" THEN access.permissions ELSE audit_log

\* the caller replaces the contents of the list it holds: on its own list, or,
\* where the handle is the account's list, on that list
CallerSetsList(new_items) ==
  LET h == HeldList
  IN  IF h.kind = "own"
      THEN /\ ret' = WithHeldList([h EXCEPT !.items = new_items])
           /\ UNCHANGED <<identity, access, audit_log, calls, threads, accounts, saved>>
      ELSE IF h.of = "permissions"
      THEN /\ access' = [access EXCEPT !.permissions = new_items]
           /\ UNCHANGED <<identity, audit_log, ret, calls, threads, accounts, saved>>
      ELSE /\ audit_log' = new_items
           /\ UNCHANGED <<identity, access, ret, calls, threads, accounts, saved>>

\* returned_list.append(x)
caller_appends ==
  /\ HoldsList
  /\ Len(HeldItems) < MaxHeldLen
  /\ CallerSetsList(Append(HeldItems, ForeignElement))

\* returned_list.clear()
caller_clears ==
  /\ HoldsList
  /\ Len(HeldItems) > 0
  /\ CallerSetsList(<<>>)

\* the audit entry dicts the caller holds a reference to
HeldEntryRefs ==
  IF ret.op = "get_audit_log"
  THEN LET h == HeldList
       IN  IF h.kind = "own"
           THEN {i \in 1..Len(audit_log) : \E k \in 1..Len(h.items) : h.items[k] = Ref(i)}
           ELSE 1..Len(audit_log)
  ELSE IF ret.op = "get_full_report"
  THEN {ret.value.last_action.ref}
  ELSE {}

\* entry['success'] = value, on an entry dict reached through the returned object
caller_sets_entry_success(i, value) ==
  /\ i \in HeldEntryRefs
  /\ audit_log[i].success # value
  /\ audit_log' = [audit_log EXCEPT ![i].success = value]
  /\ UNCHANGED <<identity, access, ret, calls, threads, accounts, saved>>

NextCaller ==
  \/ \E p \in CallerPermissionInputs : calls < MaxCallerCalls /\ grant_permission(p)
  \/ \E p \in CallerPermissionInputs : calls < MaxCallerCalls /\ revoke_permission(p)
  \/ calls < MaxCallerCalls /\ request_verification
  \/ calls < MaxCallerCalls /\ verify_identity
  \/ \E e \in EmailInputs : calls < MaxCallerCalls /\ update_email(e)
  \/ \E p \in CallerPermissionInputs : has_permission(p)
  \/ get_permissions
  \/ identity_status
  \/ get_audit_log
  \/ get_full_report
  \/ caller_appends
  \/ caller_clears
  \/ \E i \in 1..Len(audit_log) : \E value \in BOOLEAN : caller_sets_entry_success(i, value)

SpecCaller == Init /\ [][NextCaller]_vars

\* ------------------------------------------------ construction as an operation
MaxConstructCalls == 2

\* the state before SecureUser(...) has returned: the caller holds no account
NoObject == [absent |-> TRUE]

NoCall == Returned("", <<>>, None)

\* what the caller got from a call that raised: the exception, and no value
Raised(op, args, exception, message) ==
  [op |-> op, args |-> args, raised |-> exception, message |-> message]

ConstructUsernames == {"alice", "bob"}

\* the address and number of the tests, and the malformed ones of the tests
ConstructEmails == {InitEmail, <<"i", "n", "v", "a", "l", "i", "d", "-", "e", "m", "a", "i", "l">>}

ConstructPhones == {InitPhone, <<"1", "2", "3", "4", "5", "6", "7", "8", "9">>}

InitConstruct ==
  /\ identity = NoObject
  /\ access = NoObject
  /\ audit_log = <<>>
  /\ ret = NoCall
  /\ calls = 0
  /\ threads = NoThreads
  /\ accounts = NoAccounts
  /\ saved = NothingSaved

\* user = SecureUser(username, email, phone_number).  When UserIdentity(...) raises,
\* the assignment never happens: the half-built objects are unreachable.
SecureUser_init(username, email, phone_number) ==
  LET made == UserIdentity_init(username, email, phone_number)
  IN  /\ identity = NoObject
      /\ IF made.raised
         THEN /\ ret' = Raised("__init__", <<username, email, phone_number>>,
                               "ValueError", made.error)
              /\ UNCHANGED <<identity, access, audit_log, calls, threads, accounts, saved>>
         ELSE /\ identity' = made.self
              /\ access' = AccountAccess_init
              /\ audit_log' = log_action(<<>>, made.self, "USER_CREATED",
                                         "SecureUser created for " \o username,
                                         TRUE, NoDetails)
              /\ ret' = Returned("__init__", <<username, email, phone_number>>, None)
              /\ UNCHANGED <<calls, threads, accounts, saved>>

Constructed == identity # NoObject

NextConstruct ==
  \/ \E u \in ConstructUsernames : \E e \in ConstructEmails : \E p \in ConstructPhones :
       SecureUser_init(u, e, p)
  \/ \E p \in CallerPermissionInputs :
       Constructed /\ calls < MaxConstructCalls /\ grant_permission(p)
  \/ \E p \in CallerPermissionInputs :
       Constructed /\ calls < MaxConstructCalls /\ revoke_permission(p)
  \/ Constructed /\ calls < MaxConstructCalls /\ request_verification
  \/ Constructed /\ calls < MaxConstructCalls /\ verify_identity
  \/ \E e \in EmailInputs : Constructed /\ calls < MaxConstructCalls /\ update_email(e)
  \/ Constructed /\ identity_status
  \/ Constructed /\ get_audit_log

SpecConstruct == InitConstruct /\ [][NextConstruct]_vars

\* --------------------------------------------- arguments of any Python type
\* Python does not check the declared parameter types.  A value is tagged with its
\* type; a str carries its text.
MaxAnyArgCalls == 3

PyStr(text) == [type |-> "str", text |-> text]

PyNone == [type |-> "NoneType"]

PyInt == [type |-> "int"]

PyList == [type |-> "list"]

\* str(value), as the f-strings format it
Format(value) ==
  CASE value.type = "str" -> value.text
    [] value.type = "NoneType" -> "None"
    [] value.type = "int" -> "5"
    [] value.type = "list" -> "[]"

\* hash(value) succeeds: what `value in a_set` needs
Hashable(value) == value.type # "list"

AnyPermissionArgs == {PyStr("VIEW_BALANCE"), PyStr("TRANSFER"), PyNone, PyInt, PyList}

AnyEmailArgs == {PyStr(e) : e \in EmailInputs} \cup {PyNone, PyInt}

\* Variant: the leaf records the attempt before the exception leaves the call
RaisesPast_leaf_logged_first(op, arg, exception, message) ==
  /\ calls < MaxCalls
  /\ ret' = Raised(op, <<arg>>, exception, message)
  /\ calls' = calls + 1
  /\ access' = log_permission_change(access, "ADD_FAILED", message)
  /\ UNCHANGED <<identity, audit_log, threads, accounts, saved>>

\* the call raised and nothing was caught: the account is as it was
RaisesPast(op, arg, exception, message) ==
  /\ calls < MaxCalls
  /\ ret' = Raised(op, <<arg>>, exception, message)
  /\ calls' = calls + 1
  /\ UNCHANGED <<identity, access, audit_log, threads, accounts, saved>>

\* grant_permission(arg): `permission not in self.ALLOWED_PERMISSIONS` hashes the
\* argument, ALLOWED_PERMISSIONS being a set; a hashable value that is not a str is
\* no member, and only its formatted text is used afterwards
grant_permission_any(arg) ==
  IF Hashable(arg)
  THEN grant_permission(Format(arg))
  ELSE RaisesPast("grant_permission", arg, "TypeError", "unhashable type: 'list'")

\* revoke_permission(arg): `permission in self.__permissions` compares with ==,
\* __permissions being a list; no value raises
revoke_permission_any(arg) == revoke_permission(Format(arg))

\* update_email(arg): re.match raises TypeError on a value that is not a str, and
\* update_email catches ValueError only
update_email_any(arg) ==
  IF arg.type = "str"
  THEN update_email(arg.text)
  ELSE RaisesPast("update_email", arg, "TypeError", "expected string or bytes-like object")

NextAnyArg ==
  \/ \E a \in AnyPermissionArgs : calls < MaxAnyArgCalls /\ grant_permission_any(a)
  \/ \E a \in AnyPermissionArgs : calls < MaxAnyArgCalls /\ revoke_permission_any(a)
  \/ \E a \in AnyEmailArgs : calls < MaxAnyArgCalls /\ update_email_any(a)
  \/ calls < MaxAnyArgCalls /\ request_verification
  \/ calls < MaxAnyArgCalls /\ verify_identity

SpecAnyArg == Init /\ [][NextAnyArg]_vars

\* -------------------------------------------- the protected attributes
\* SecureUser._identity and UserIdentity._email carry one underscore: Python
\* does not mangle them, and a caller can read and assign them.
MaxProtectedCalls == 2

\* user._identity._email = value
caller_assigns_email(value) ==
  /\ identity.email # value
  /\ identity' = [identity EXCEPT !.email = value]
  /\ UNCHANGED <<access, audit_log, ret, calls, threads, accounts, saved>>

NextProtected ==
  \/ \E p \in CallerPermissionInputs : calls < MaxProtectedCalls /\ grant_permission(p)
  \/ \E p \in CallerPermissionInputs : calls < MaxProtectedCalls /\ revoke_permission(p)
  \/ calls < MaxProtectedCalls /\ request_verification
  \/ calls < MaxProtectedCalls /\ verify_identity
  \/ \E e \in EmailInputs : calls < MaxProtectedCalls /\ update_email(e)
  \/ identity_status
  \/ \E e \in EmailInputs : caller_assigns_email(e)

SpecProtected == Init /\ [][NextProtected]_vars

\* ------------------------------------------- two callers on one account
\* The code takes no lock.  Two threads that call methods of the same account
\* are switched between statements; grant_permission is followed statement by
\* statement, request_verification and verify_identity are taken whole.
MaxThreadCalls == 3

Threads == {1, 2}

ThreadPermissionInputs == {"VIEW_BALANCE", "TRANSFER"}

IdleFrame == [pc |-> "idle", permission |-> None, is_verified |-> FALSE,
              result |-> <<FALSE, "">>, started_at |-> 0]

\* overlapped: some call ran while another call on the account was in progress
InitInterleaved ==
  LET made == UserIdentity_init(InitUsername, InitEmail, InitPhone)
  IN  /\ identity = made.self
      /\ access = AccountAccess_init
      /\ audit_log = log_action(<<>>, made.self, "USER_CREATED",
                                "SecureUser created for " \o InitUsername, TRUE, NoDetails)
      /\ ret = Returned("__init__", <<InitUsername, InitEmail, InitPhone>>, None)
      /\ calls = 0
      /\ threads = [frames |-> [t \in Threads |-> IdleFrame], overlapped |-> FALSE]
      /\ accounts = NoAccounts
      /\ saved = NothingSaved

Active == {t \in Threads : threads.frames[t].pc # "idle"}

\* another call completed since thread t entered its own
Overtaken(t) == calls # threads.frames[t].started_at

\* Variant: the duplicate test is missing from add_permission's checks
add_permission_branch_no_duplicate_test(self, permission, is_verified) ==
  IF permission \notin ALLOWED_PERMISSIONS THEN "ADD_FAILED"
  ELSE IF permission \in RESTRICTED_PERMISSIONS /\ ~is_verified THEN "ADD_DENIED"
  ELSE "ADD_SUCCESS"

\* the branch add_permission's three tests select
add_permission_branch(self, permission, is_verified) ==
  IF permission \notin ALLOWED_PERMISSIONS THEN "ADD_FAILED"
  ELSE IF permission \in Range(self.permissions) THEN "ADD_DUPLICATE"
  ELSE IF permission \in RESTRICTED_PERMISSIONS /\ ~is_verified THEN "ADD_DENIED"
  ELSE "ADD_SUCCESS"

\* thread t enters grant_permission(permission) and reads the verification state
thread_reads_state(t, permission) ==
  /\ threads.frames[t].pc = "idle"
  /\ calls + Cardinality(Active) < MaxThreadCalls
  /\ threads' = [frames |-> [threads.frames EXCEPT ![t] =
                                [pc |-> "delegate",
                                 permission |-> permission,
                                 is_verified |-> is_verified_flag(identity),
                                 result |-> <<FALSE, "">>,
                                 started_at |-> calls]],
                 overlapped |-> threads.overlapped \/ Active # {}]
  /\ UNCHANGED <<identity, access, audit_log, ret, calls, accounts, saved>>

\* thread t runs add_permission's tests; a rejection is logged in the grant
\* history and returned at once
thread_checks(t) ==
  LET f == threads.frames[t]
      tag == add_permission_branch(access, f.permission, f.is_verified)
      rejected == AddOutcome(access, f.permission, tag)
  IN  /\ f.pc = "delegate"
      /\ IF tag = "ADD_SUCCESS"
         THEN /\ threads' = [frames |-> [threads.frames EXCEPT ![t].pc = "append"],
                             overlapped |-> threads.overlapped \/ Overtaken(t)]
              /\ UNCHANGED access
         ELSE /\ threads' = [frames |-> [threads.frames EXCEPT ![t].pc = "log",
                                                               ![t].result = rejected.result],
                             overlapped |-> threads.overlapped \/ Overtaken(t)]
              /\ access' = rejected.self
      /\ UNCHANGED <<identity, audit_log, ret, calls, accounts, saved>>

\* thread t appends the permission and logs ADD_SUCCESS in the grant history
thread_appends(t) ==
  LET f == threads.frames[t]
      added == AddOutcome(access, f.permission, "ADD_SUCCESS")
  IN  /\ f.pc = "append"
      /\ access' = added.self
      /\ threads' = [frames |-> [threads.frames EXCEPT ![t].pc = "log",
                                                        ![t].result = added.result],
                     overlapped |-> threads.overlapped \/ Overtaken(t)]
      /\ UNCHANGED <<identity, audit_log, ret, calls, accounts, saved>>

\* thread t writes the audit entry and returns
thread_logs(t) ==
  LET f == threads.frames[t]
  IN  /\ f.pc = "log"
      /\ audit_log' = log_action(audit_log, identity, "GRANT_PERMISSION",
                                 "Attempted to grant '" \o f.permission \o "': " \o f.result[2],
                                 f.result[1],
                                 [permission |-> f.permission, verified |-> f.is_verified])
      /\ ret' = Returned("grant_permission", <<f.permission>>, f.result)
      /\ calls' = calls + 1
      /\ threads' = [frames |-> [threads.frames EXCEPT ![t] = IdleFrame],
                     overlapped |-> threads.overlapped \/ Overtaken(t)]
      /\ UNCHANGED <<identity, access, accounts, saved>>

NextInterleaved ==
  \/ \E t \in Threads : \E p \in ThreadPermissionInputs : thread_reads_state(t, p)
  \/ \E t \in Threads : thread_checks(t)
  \/ \E t \in Threads : thread_appends(t)
  \/ \E t \in Threads : thread_logs(t)
  \/ calls + Cardinality(Active) < MaxThreadCalls /\ request_verification
  \/ calls + Cardinality(Active) < MaxThreadCalls /\ verify_identity

SpecInterleaved == InitInterleaved /\ [][NextInterleaved]_vars

\* ------------------------------------------------- two accounts side by side
\* Each SecureUser instance holds its own UserIdentity, AccountAccess and audit
\* list, created in __init__; the two vocabularies are attributes of the class
\* AccountAccess, shared by every instance.
MaxAccountCalls == 3

AccountIds == {"A", "B"}

AccountUsername(a) == IF a = "A" THEN "alice" ELSE "bob"

\* SecureUser(username, email, phone_number) as a value: the instance's attributes
NewAccount(username) ==
  LET made == UserIdentity_init(username, InitEmail, InitPhone)
  IN  [identity |-> made.self,
       access |-> AccountAccess_init,
       audit_log |-> log_action(<<>>, made.self, "USER_CREATED",
                                "SecureUser created for " \o username, TRUE, NoDetails)]

InitAccounts ==
  /\ identity = NoObject
  /\ access = NoObject
  /\ audit_log = <<>>
  /\ ret = NoCall
  /\ calls = 0
  /\ threads = NoThreads
  /\ accounts = [instances |-> [a \in AccountIds |-> NewAccount(AccountUsername(a))],
                 AccountAccess |-> [ALLOWED_PERMISSIONS |-> ALLOWED_PERMISSIONS,
                                    RESTRICTED_PERMISSIONS |-> RESTRICTED_PERMISSIONS]]
  /\ saved = NothingSaved

\* Variant: the permission list is an attribute of the class, one list for all
StoreSelf_class_level_permissions(a, self) ==
  [accounts EXCEPT !.instances =
     [b \in AccountIds |->
        IF b = a THEN self
        ELSE [accounts.instances[b] EXCEPT !.access.permissions = self.access.permissions]]]

\* the heap after a method has assigned attributes of its receiver `self`
StoreSelf(a, self) ==
  [accounts EXCEPT !.instances[a] = self]

\* a method call on instance a: the receiver's new attributes and the value returned
CallOn(a, op, args, self, value) ==
  /\ calls < MaxAccountCalls
  /\ accounts' = StoreSelf(a, self)
  /\ ret' = Returned(op, <<a>> \o args, value)
  /\ calls' = calls + 1
  /\ UNCHANGED <<identity, access, audit_log, threads, saved>>

account_grant_permission(a, permission) ==
  LET self == accounts.instances[a]
      is_verified == is_verified_flag(self.identity)
      added == add_permission(self.access, permission, is_verified)
  IN  CallOn(a, "grant_permission", <<permission>>,
             [self EXCEPT
                !.access = added.self,
                !.audit_log = log_action(@, self.identity, "GRANT_PERMISSION",
                                "Attempted to grant '" \o permission \o "': " \o added.result[2],
                                added.result[1],
                                [permission |-> permission, verified |-> is_verified])],
             added.result)

account_revoke_permission(a, permission) ==
  LET self == accounts.instances[a]
      removed == remove_permission(self.access, permission)
  IN  CallOn(a, "revoke_permission", <<permission>>,
             [self EXCEPT
                !.access = removed.self,
                !.audit_log = log_action(@, self.identity, "REVOKE_PERMISSION",
                                "Attempted to revoke '" \o permission \o "': " \o removed.result[2],
                                removed.result[1],
                                [permission |-> permission])],
             removed.result)

account_request_verification(a) ==
  LET self == accounts.instances[a]
      done == UserIdentity_request_verification(self.identity)
  IN  CallOn(a, "request_verification", <<>>,
             [self EXCEPT
                !.identity = done.self,
                !.audit_log = log_action(@, done.self, "REQUEST_VERIFICATION",
                                "Verification request: "
                                   \o (IF done.result THEN "successful" ELSE "failed"),
                                done.result, NoDetails)],
             done.result)

account_verify_identity(a) ==
  LET self == accounts.instances[a]
      done == UserIdentity_verify(self.identity)
  IN  CallOn(a, "verify_identity", <<>>,
             [self EXCEPT
                !.identity = done.self,
                !.audit_log = log_action(@, done.self, "VERIFY_IDENTITY",
                                "Identity verification: "
                                   \o (IF done.result THEN "successful" ELSE "failed"),
                                done.result, NoDetails)],
             done.result)

account_update_email(a, new_email) ==
  LET self == accounts.instances[a]
      done == set_email(self.identity, new_email)
  IN  CallOn(a, "update_email", <<new_email>>,
             [self EXCEPT
                !.identity = done.self,
                !.audit_log =
                   IF ~done.raised
                   THEN log_action(@, done.self, "UPDATE_EMAIL",
                                   <<"Email updated to ", new_email>>, TRUE, NoDetails)
                   ELSE log_action(@, done.self, "UPDATE_EMAIL",
                                   <<"Failed to update email: ", done.error>>,
                                   FALSE, NoDetails)],
             IF ~done.raised THEN <<TRUE, "Email updated successfully">>
             ELSE <<FALSE, done.error>>)

NextAccounts ==
  \/ \E a \in AccountIds : \E p \in CallerPermissionInputs : account_grant_permission(a, p)
  \/ \E a \in AccountIds : \E p \in CallerPermissionInputs : account_revoke_permission(a, p)
  \/ \E a \in AccountIds : account_request_verification(a)
  \/ \E a \in AccountIds : account_verify_identity(a)
  \/ \E a \in AccountIds : \E e \in EmailInputs : account_update_email(a, e)

SpecAccounts == InitAccounts /\ [][NextAccounts]_vars

\* ------------------------------------------------- AccountAccess on its own
\* The leaf called directly, with the is_verified flag chosen by the caller.
MaxAccessCalls == 3

AccessPermissionInputs == {"VIEW_BALANCE", "TRANSFER", "DELETE_DATABASE"}

InitAccess ==
  /\ identity = NoObject
  /\ access = AccountAccess_init
  /\ audit_log = <<>>
  /\ ret = NoCall
  /\ calls = 0
  /\ threads = NoThreads
  /\ accounts = NoAccounts
  /\ saved = NothingSaved

call_add_permission(permission, is_verified) ==
  LET added == add_permission(access, permission, is_verified)
  IN  /\ calls < MaxAccessCalls
      /\ access' = added.self
      /\ ret' = Returned("add_permission", <<permission, is_verified>>, added.result)
      /\ calls' = calls + 1
      /\ UNCHANGED <<identity, audit_log, threads, accounts, saved>>

call_remove_permission(permission) ==
  LET removed == remove_permission(access, permission)
  IN  /\ calls < MaxAccessCalls
      /\ access' = removed.self
      /\ ret' = Returned("remove_permission", <<permission>>, removed.result)
      /\ calls' = calls + 1
      /\ UNCHANGED <<identity, audit_log, threads, accounts, saved>>

call_clear_all_permissions ==
  LET cleared == clear_all_permissions(access)
  IN  /\ calls < MaxAccessCalls
      /\ access' = cleared.self
      /\ ret' = Returned("clear_all_permissions", <<>>, cleared.result)
      /\ calls' = calls + 1
      /\ UNCHANGED <<identity, audit_log, threads, accounts, saved>>

call_has_permission(permission) ==
  /\ ret' = Returned("has_permission", <<permission>>,
                     AccountAccess_has_permission(access, permission))
  /\ UNCHANGED <<identity, access, audit_log, calls, threads, accounts, saved>>

NextAccess ==
  \/ \E p \in AccessPermissionInputs : \E v \in BOOLEAN : call_add_permission(p, v)
  \/ \E p \in AccessPermissionInputs : call_remove_permission(p)
  \/ call_clear_all_permissions
  \/ \E p \in AccessPermissionInputs : call_has_permission(p)

SpecAccess == InitAccess /\ [][NextAccess]_vars

\* ------------------------------------------------ reads between the calls
\* The caller reads the account between mutating calls and keeps a dict that
\* identity_status returned while it goes on calling.
MaxReadCalls == 2

ReadOps == {"has_permission", "get_permissions", "identity_status", "get_audit_log",
            "get_full_report"}

\* before = user.identity_status(): the caller keeps the returned dict
caller_saves_status ==
  /\ ret.op = "identity_status"
  /\ saved # <<ret.value>>
  /\ saved' = <<ret.value>>
  /\ UNCHANGED <<identity, access, audit_log, ret, calls, threads, accounts>>

\* what the caller reads in a dict identity_status returned: its 'permissions'
\* key refers to a list, read where that list now is
StatusShown(dict) ==
  [dict EXCEPT !.permissions = IF @.kind = "own" THEN @.items ELSE access.permissions]

NextReads ==
  \/ \E p \in CallerPermissionInputs : calls < MaxReadCalls /\ grant_permission(p)
  \/ \E p \in CallerPermissionInputs : calls < MaxReadCalls /\ revoke_permission(p)
  \/ calls < MaxReadCalls /\ request_verification
  \/ calls < MaxReadCalls /\ verify_identity
  \/ \E e \in EmailInputs : calls < MaxReadCalls /\ update_email(e)
  \/ \E p \in CallerPermissionInputs : has_permission(p)
  \/ get_permissions
  \/ identity_status
  \/ get_audit_log
  \/ get_full_report
  \/ caller_saves_status

SpecReads == Init /\ [][NextReads]_vars

\* ------------------------------------- a caller who goes on to get verified
\* The caller makes up to MaxLiveCalls calls of any kind, and goes on calling
\* request_verification and then verify_identity while the account is not
\* VERIFIED.
MaxLiveCalls == 2

keeps_requesting ==
  /\ calls < MaxLiveCalls \/ identity.verification_status = "UNVERIFIED"
  /\ request_verification

then_verifies ==
  /\ \/ calls < MaxLiveCalls
     \/ identity.verification_status = "PENDING"
     \/ ret.op = "request_verification"
  /\ verify_identity

NextLive ==
  \/ \E p \in PermissionInputs : calls < MaxLiveCalls /\ grant_permission(p)
  \/ \E p \in PermissionInputs : calls < MaxLiveCalls /\ revoke_permission(p)
  \/ \E e \in EmailInputs : calls < MaxLiveCalls /\ update_email(e)
  \/ keeps_requesting
  \/ then_verifies

\* both calls keep being made: neither stays possible for ever without being made
SpecLive ==
  /\ Init
  /\ [][NextLive]_vars
  /\ WF_vars(keeps_requesting)
  /\ WF_vars(then_verifies)

\* ------------------------------------- every name of the permission vocabulary
MaxVocabularyCalls == 3

\* the six names of ALLOWED_PERMISSIONS and one name outside it
VocabularyInputs == ALLOWED_PERMISSIONS \cup {"DELETE_DATABASE"}

NextVocabulary ==
  \/ \E p \in VocabularyInputs : calls < MaxVocabularyCalls /\ grant_permission(p)
  \/ \E p \in VocabularyInputs : calls < MaxVocabularyCalls /\ revoke_permission(p)
  \/ calls < MaxVocabularyCalls /\ request_verification
  \/ calls < MaxVocabularyCalls /\ verify_identity

SpecVocabulary == Init /\ [][NextVocabulary]_vars

\* ------------------------------------------------------------- properties
status == identity.verification_status

permissions == access.permissions

Last(seq) == seq[Len(seq)]

IsPrefix(a, b) == Len(a) <= Len(b) /\ SubSeq(b, 1, Len(a)) = a

\* this step is a call of the mutating operation op
Calls(op) == calls' = calls + 1 /\ ret'.op = op

\* this step is the call op(arg)
CallsWith(op, arg) == Calls(op) /\ ret'.args = <<arg>>

\* this step appends exactly one entry to the audit log, with the given success flag
AuditsOne(success) ==
  /\ Len(audit_log') = Len(audit_log) + 1
  /\ IsPrefix(audit_log, audit_log')
  /\ Last(audit_log').success = success

\* C1: the verification state changes only by UNVERIFIED -> PENDING, taken by
\* request_verification, or by PENDING -> VERIFIED, taken by verify_identity; it
\* never skips PENDING, never moves backward, and VERIFIED is never left.
C1_VerificationForwardOnly ==
  [][ /\ status' # status =>
           \/ status = "UNVERIFIED" /\ status' = "PENDING" /\ Calls("request_verification")
           \/ status = "PENDING" /\ status' = "VERIFIED" /\ Calls("verify_identity")
      /\ status = "VERIFIED" => status' = "VERIFIED"
    ]_vars

\* C1 witness: the account went through both steps and a later call left it VERIFIED
C1_Witness ==
  /\ status = "VERIFIED"
  /\ ret.op = "request_verification"
  /\ \E i, j \in 1..Len(audit_log) :
       /\ i < j
       /\ audit_log[i].verification_status = "PENDING"
       /\ audit_log[j].action = "VERIFY_IDENTITY" /\ audit_log[j].success

\* C2: request_verification called in PENDING or VERIFIED, and verify_identity
\* called in UNVERIFIED or VERIFIED, return False, leave the identity as it was
\* but for one *_DENIED history entry whose description names the rejected source
\* state, and append one audit entry with success = False.
C2_OutOfOrderRejected ==
  [][ /\ (Calls("request_verification") /\ status # "UNVERIFIED") =>
           /\ ret'.value = FALSE
           /\ identity' = [identity EXCEPT !.state_history =
                 Append(@, [action |-> "VERIFICATION_REQUEST_DENIED",
                            description |-> "Cannot request verification from "
                                               \o status \o " state",
                            status |-> status])]
           /\ AuditsOne(FALSE)
      /\ (Calls("verify_identity") /\ status # "PENDING") =>
           /\ ret'.value = FALSE
           /\ identity' = [identity EXCEPT !.state_history =
                 Append(@, [action |-> "VERIFICATION_DENIED",
                            description |-> "Cannot verify from " \o status \o " state",
                            status |-> status])]
           /\ AuditsOne(FALSE)
    ]_vars

\* C2 witness: request_verification was called, and refused, while PENDING
C2_Witness ==
  /\ ret.op = "request_verification"
  /\ ret.value = FALSE
  /\ status = "PENDING"
  /\ Last(identity.state_history).action = "VERIFICATION_REQUEST_DENIED"

\* C3 as stated: grant_permission of a restricted permission fails with "must be
\* VERIFIED" in UNVERIFIED and PENDING, and succeeds whenever the state is VERIFIED.
C3_RestrictedGrantAsStated ==
  [][ \A p \in RESTRICTED_PERMISSIONS :
        CallsWith("grant_permission", p) =>
          IF status # "VERIFIED"
          THEN ret'.value = <<FALSE, "Cannot grant '" \o p \o "' - user must be VERIFIED">>
          ELSE ret'.value = <<TRUE, "Permission granted: " \o p>>
    ]_vars

\* C3 (amended): grant_permission of a restricted permission fails with "must be
\* VERIFIED" in UNVERIFIED and PENDING; in VERIFIED it succeeds and appends the
\* permission when it is not yet granted, and fails with "already granted",
\* leaving the list alone, when it is.
C3_RestrictedGrantGated ==
  [][ \A p \in RESTRICTED_PERMISSIONS :
        CallsWith("grant_permission", p) =>
          IF status # "VERIFIED"
          THEN /\ ret'.value = <<FALSE, "Cannot grant '" \o p \o "' - user must be VERIFIED">>
               /\ permissions' = permissions
          ELSE IF p \in Range(permissions)
          THEN /\ ret'.value = <<FALSE, "Permission already granted: " \o p>>
               /\ permissions' = permissions
          ELSE /\ ret'.value = <<TRUE, "Permission granted: " \o p>>
               /\ permissions' = Append(permissions, p)
    ]_vars

\* C3 witness: a restricted grant was refused before verification and has now succeeded
C3_Witness ==
  /\ ret.op = "grant_permission"
  /\ ret.args[1] \in RESTRICTED_PERMISSIONS
  /\ ret.value[1] = TRUE
  /\ \E i \in 1..Len(audit_log) :
       /\ audit_log[i].action = "GRANT_PERMISSION"
       /\ ~audit_log[i].success
       /\ audit_log[i].details.permission = ret.args[1]

\* C4: a restricted permission enters the granted list only by a grant_permission
\* call for it made while the verification state is VERIFIED.
C4_RestrictedEntersOnlyWhenVerified ==
  [][ \A p \in RESTRICTED_PERMISSIONS :
        (p \notin Range(permissions) /\ p \in Range(permissions')) =>
          /\ status = "VERIFIED"
          /\ CallsWith("grant_permission", p)
    ]_vars

\* C4 witness: both restricted permissions are in the granted list
C4_Witness == RESTRICTED_PERMISSIONS \subseteq Range(permissions)

\* C5: for a name outside ALLOWED, grant_permission fails with the invalid-
\* permission message and leaves the granted list unchanged, in every
\* verification state.
C5_UnknownPermissionRejected ==
  [][ \A p \in PermissionInputs \ ALLOWED_PERMISSIONS :
        CallsWith("grant_permission", p) =>
          /\ ret'.value = <<FALSE, "Invalid permission: " \o p>>
          /\ permissions' = permissions
    ]_vars

\* C5 witness: an unknown name was refused on a VERIFIED account holding a permission
C5_Witness ==
  /\ ret.op = "grant_permission"
  /\ ret.args[1] \notin ALLOWED_PERMISSIONS
  /\ ret.value[1] = FALSE
  /\ status = "VERIFIED"
  /\ Len(permissions) > 0

\* C6: every element of the granted list is one of the six names of ALLOWED.
C6_GrantedWithinAllowed ==
  Range(permissions) \subseteq
    {"VIEW_BALANCE", "VIEW_TRANSACTIONS", "TRANSFER", "WITHDRAW", "DEPOSIT", "UPDATE_PROFILE"}

\* C6 witness: permissions are held and a grant of an unknown name has been attempted
C6_Witness ==
  /\ Len(permissions) >= 2
  /\ \E i \in 1..Len(audit_log) :
       /\ audit_log[i].action = "GRANT_PERMISSION"
       /\ audit_log[i].details.permission \notin ALLOWED_PERMISSIONS

\* position in the audit log of the latest successful grant of p (0: none)
LastGrant(p) ==
  LET hits == {i \in 1..Len(audit_log) :
                 /\ audit_log[i].action = "GRANT_PERMISSION"
                 /\ audit_log[i].success
                 /\ audit_log[i].details.permission = p}
  IN  IF hits = {} THEN 0 ELSE CHOOSE i \in hits : \A k \in hits : k <= i

\* C7: the granted list has no duplicates and lists the present permissions in the
\* order of their most recent successful grant.
C7_NoDuplicatesGrantOrder ==
  /\ \A i, j \in 1..Len(permissions) : permissions[i] = permissions[j] => i = j
  /\ \A i \in 1..Len(permissions) : LastGrant(permissions[i]) > 0
  /\ \A i, j \in 1..Len(permissions) :
       i < j => LastGrant(permissions[i]) < LastGrant(permissions[j])

\* C7 witness: the last element was granted, revoked and granted again after the first
C7_Witness ==
  /\ Len(permissions) = 2
  /\ \E i \in 1..Len(audit_log) :
       /\ audit_log[i].action = "GRANT_PERMISSION"
       /\ audit_log[i].success
       /\ audit_log[i].details.permission = permissions[2]
       /\ i < LastGrant(permissions[1])

\* C8: granting a permission that is already granted returns (False, "... already
\* granted ..."), leaves the granted list unchanged and is recorded as a failure,
\* in the grant history (ADD_DUPLICATE) and in the audit log (success = False).
C8_DuplicateGrantRejected ==
  [][ \A p \in PermissionInputs :
        (CallsWith("grant_permission", p) /\ p \in Range(permissions)) =>
          /\ ret'.value = <<FALSE, "Permission already granted: " \o p>>
          /\ permissions' = permissions
          /\ Last(access'.permission_history).action = "ADD_DUPLICATE"
          /\ Len(access'.permission_history) = Len(access.permission_history) + 1
          /\ AuditsOne(FALSE)
          /\ Last(audit_log').action = "GRANT_PERMISSION"
    ]_vars

\* C8 witness: a second grant of a held permission was refused
C8_Witness ==
  /\ ret.op = "grant_permission"
  /\ ret.value = <<FALSE, "Permission already granted: " \o ret.args[1]>>
  /\ ret.args[1] \in Range(permissions)

C10_AuditLogAppendOnly ==
  [][ IsPrefix(audit_log, audit_log') ]_vars

\* C10 witness: the log has grown over several calls of different operations
C10_Witness ==
  /\ Len(audit_log) >= 4
  /\ audit_log[2].action # audit_log[3].action
  /\ audit_log[3].action # audit_log[4].action

\* C11: nothing the caller does to a list it got from get_permissions,
\* identity_status or get_audit_log changes the account's permission list or the
\* account's audit list, so the next call of the accessor returns what it would
\* have returned anyway.
C11_ReturnedListsAreCopies ==
  [][ calls' = calls =>
        /\ access' = access
        /\ Len(audit_log') = Len(audit_log)
        /\ identity' = identity
    ]_vars

\* C11 witness: the caller appended to the list from get_permissions, and the
\* account's list does not hold the element
C11_Witness ==
  /\ ret.op = "get_permissions"
  /\ Len(permissions) >= 1
  /\ "ADMIN_ACCESS" \in Range(ret.value.items)
  /\ "ADMIN_ACCESS" \notin Range(permissions)

\* C12 as stated: the content of an audit entry, once appended, never changes,
\* whatever the caller does with what get_audit_log or get_full_report returned.
C12_AuditEntriesImmutable ==
  [][ \A i \in 1..Len(audit_log) :
        i <= Len(audit_log') /\ audit_log'[i] = audit_log[i]
    ]_vars

\* C13: update_email with a malformed address returns (False, message), leaves the
\* stored email and the identity's state history as they were, and appends exactly
\* one UPDATE_EMAIL audit entry with success = False.
C13_MalformedEmailRejected ==
  [][ \A e \in EmailInputs :
        (CallsWith("update_email", e) /\ ~validate_email(e)) =>
          /\ Len(ret'.value) = 2
          /\ ret'.value[1] = FALSE
          /\ ret'.value[2] = <<"Invalid email format: ", e>>
          /\ identity'.email = identity.email
          /\ identity'.state_history = identity.state_history
          /\ AuditsOne(FALSE)
          /\ Last(audit_log').action = "UPDATE_EMAIL"
    ]_vars

\* C13 witness: a malformed address was just rejected, after an earlier update
\* had replaced the address given at construction
C13_Witness ==
  /\ ret.op = "update_email"
  /\ ~validate_email(ret.args[1])
  /\ ret.value[1] = FALSE
  /\ identity.email # InitEmail
  /\ Last(audit_log).action = "UPDATE_EMAIL"
  /\ ~Last(audit_log).success

\* C16: revoke_permission(p) for a p that is not granted returns
\* (False, "Permission not found: p"), leaves the granted list unchanged, records
\* REMOVE_FAILED in the permission history and appends one audit entry with
\* success = False.
C16_RevokeAbsentRejected ==
  [][ \A p \in PermissionInputs :
        (CallsWith("revoke_permission", p) /\ ~AccountAccess_has_permission(access, p)) =>
          /\ ret'.value = <<FALSE, "Permission not found: " \o p>>
          /\ permissions' = permissions
          /\ Len(access'.permission_history) = Len(access.permission_history) + 1
          /\ Last(access'.permission_history).action = "REMOVE_FAILED"
          /\ AuditsOne(FALSE)
          /\ Last(audit_log').action = "REVOKE_PERMISSION"
    ]_vars

\* C16 witness: a revocation was just refused while other permissions are granted
C16_Witness ==
  /\ ret.op = "revoke_permission"
  /\ ret.value[1] = FALSE
  /\ Len(permissions) >= 1
  /\ Last(access.permission_history).action = "REMOVE_FAILED"

\* C17: revoke_permission(p) for a granted p succeeds, removes p and nothing else,
\* keeps the other permissions in their order, and has_permission(p) is False
\* afterwards.
C17_RevokePresentRemovesOnlyIt ==
  [][ \A p \in PermissionInputs :
        (CallsWith("revoke_permission", p) /\ AccountAccess_has_permission(access, p)) =>
          /\ ret'.value[1] = TRUE
          /\ permissions' = SelectSeq(permissions, LAMBDA q : q # p)
          /\ ~AccountAccess_has_permission(access', p)
    ]_vars

\* C17 witness: the permission just revoked had been granted before the one
\* that remains, so it was removed from the front of the list
C17_Witness ==
  /\ ret.op = "revoke_permission"
  /\ ret.value[1] = TRUE
  /\ Len(permissions) = 1
  /\ 0 < LastGrant(ret.args[1])
  /\ LastGrant(ret.args[1]) < LastGrant(permissions[1])

UnrestrictedPermissions == ALLOWED_PERMISSIONS \ RESTRICTED_PERMISSIONS

\* C19: the unrestricted names are VIEW_BALANCE, VIEW_TRANSACTIONS, DEPOSIT and
\* UPDATE_PROFILE, and granting one of them while it is not granted succeeds in
\* every verification state.
C19_UnrestrictedGrantAnyState ==
  [][ /\ UnrestrictedPermissions =
           {"VIEW_BALANCE", "VIEW_TRANSACTIONS", "DEPOSIT", "UPDATE_PROFILE"}
      /\ \A p \in UnrestrictedPermissions :
           (CallsWith("grant_permission", p) /\ ~AccountAccess_has_permission(access, p)) =>
             /\ ret'.value = <<TRUE, "Permission granted: " \o p>>
             /\ permissions' = Append(permissions, p)
             /\ Last(audit_log').success
    ]_vars

\* C19 witness: UPDATE_PROFILE was just granted while verification is pending
C19_Witness ==
  /\ ret.op = "grant_permission"
  /\ ret.args = <<"UPDATE_PROFILE">>
  /\ ret.value[1] = TRUE
  /\ status = "PENDING"

\* this step is the call SecureUser(u, e, p) by a caller that holds no account
ConstructsWith(u, e, p) ==
  /\ ~Constructed
  /\ ret'.op = "__init__"
  /\ ret'.args = <<u, e, p>>

\* C15: constructing with a malformed email or a malformed phone raises ValueError,
\* and afterwards the caller holds no identity, no access component and no audit log.
C15_MalformedConstructionRaises ==
  [][ \A u \in ConstructUsernames : \A e \in ConstructEmails : \A p \in ConstructPhones :
        (ConstructsWith(u, e, p) /\ (~validate_email(e) \/ ~validate_phone(p))) =>
          /\ "raised" \in DOMAIN ret'
          /\ ret'.raised = "ValueError"
          /\ identity' = NoObject
          /\ access' = NoObject
          /\ audit_log' = <<>>
    ]_vars

\* C15 witness: construction with a well-formed email and the phone "123456789"
\* has just raised
C15_Witness ==
  /\ ret.op = "__init__"
  /\ "raised" \in DOMAIN ret
  /\ validate_email(ret.args[2])
  /\ ~validate_phone(ret.args[3])
  /\ ~Constructed

\* C20: right after a successful construction the state is UNVERIFIED, nothing is
\* granted, the status snapshot reports the given name, email and phone, and the
\* audit log is the single entry USER_CREATED with success = True and UNVERIFIED.
C20_FreshAccount ==
  [][ \A u \in ConstructUsernames : \A e \in ConstructEmails : \A p \in ConstructPhones :
        (ConstructsWith(u, e, p) /\ validate_email(e) /\ validate_phone(p)) =>
          /\ "value" \in DOMAIN ret'
          /\ status' = "UNVERIFIED"
          /\ permissions' = <<>>
          /\ identity_status_value'.username = u
          /\ identity_status_value'.email = e
          /\ identity_status_value'.phone = p
          /\ identity_status_value'.permissions.items = <<>>
          /\ Len(audit_log') = 1
          /\ audit_log'[1].action = "USER_CREATED"
          /\ audit_log'[1].success = TRUE
          /\ audit_log'[1].verification_status = "UNVERIFIED"
          /\ audit_log'[1].user = u
    ]_vars

\* C20 witness: bob's account has just been constructed
C20_Witness ==
  /\ ret.op = "__init__"
  /\ "value" \in DOMAIN ret
  /\ Constructed
  /\ identity.username = "bob"
  /\ Len(audit_log) = 1

\* C14 as stated: no call on a constructed account raises, whatever the argument
\* and the state.
C14_NoOperationRaises == "raised" \notin DOMAIN ret

\* the operations that return a bare bool, and those that return (bool, str)
VerificationOps == {"request_verification", "verify_identity"}

\* the action tag under which an operation is logged
AuditTag(op) ==
  CASE op = "grant_permission" -> "GRANT_PERMISSION"
    [] op = "revoke_permission" -> "REVOKE_PERMISSION"
    [] op = "request_verification" -> "REQUEST_VERIFICATION"
    [] op = "verify_identity" -> "VERIFY_IDENTITY"
    [] op = "update_email" -> "UPDATE_EMAIL"

\* the fields of an operation's audit entry
AuditKeys(op) ==
  {"action", "description", "success", "user", "verification_status"}
    \cup (IF op \in {"grant_permission", "revoke_permission"} THEN {"details"} ELSE {})

\* the success flag in what a call returned
Flag(r) == IF r.op \in VerificationOps THEN r.value ELSE r.value[1]

\* this step is a call of a mutating operation
CallsAny == calls' = calls + 1

\* the audit entry of this call has the tag, the fields and the user that every
\* call of the operation has, and the flag that was returned
AuditedAlike ==
  /\ AuditsOne(Flag(ret'))
  /\ Last(audit_log').action = AuditTag(ret'.op)
  /\ DOMAIN Last(audit_log') = AuditKeys(ret'.op)
  /\ Last(audit_log').user = identity.username

\* C18 as stated: every rejected call returns a boolean flag together with a reason
\* string, and is audited as a successful call of the operation is.
C18_RejectionAsStated ==
  [][ (CallsAny /\ ~Flag(ret')) =>
        /\ IF ret'.op \in VerificationOps
           THEN ret'.value \notin BOOLEAN
           ELSE Len(ret'.value) = 2 /\ ret'.value[1] \in BOOLEAN
        /\ AuditedAlike
    ]_vars

\* C18 amended: a rejected grant, revoke or update_email returns (False, reason);
\* a rejected request_verification or verify_identity returns False alone, and
\* the reason is the description of the *_DENIED entry it adds to the identity's
\* state history.  Every call, rejected or not, is audited under the operation's
\* tag with the same fields and user, and with the flag that was returned.
C18_RejectionReported ==
  [][ CallsAny =>
        /\ AuditedAlike
        /\ ~Flag(ret') =>
             IF ret'.op \in VerificationOps
             THEN /\ ret'.value = FALSE
                  /\ Len(identity'.state_history) = Len(identity.state_history) + 1
                  /\ Last(identity'.state_history).action
                       \in {"VERIFICATION_REQUEST_DENIED", "VERIFICATION_DENIED"}
             ELSE /\ Len(ret'.value) = 2
                  /\ ret'.value[1] = FALSE
                  /\ Len(ret'.value[2]) > 0
    ]_vars

\* C18 witness: verify_identity was just rejected before any request
C18_Witness ==
  /\ ret.op = "verify_identity"
  /\ ret.value = FALSE
  /\ status = "UNVERIFIED"
  /\ Last(audit_log).action = "VERIFY_IDENTITY"
  /\ ~Last(audit_log).success

\* C21 as stated: in every state a caller can bring about, the stored email
\* matches the email format and the stored phone matches the phone format.
C21_StoredContactValidated ==
  /\ validate_email(identity.email)
  /\ validate_phone(identity.phone_number)

\* entries the two leaves logged since construction
LeafEntriesSinceConstruction ==
  (Len(identity.state_history) - 3) + (Len(access.permission_history) - 1)

\* C22: between operations, a change of the identity or of the permission
\* component is always accompanied by the audit entry of the operation that made
\* it, and an operation that raises changes none of the three; no state shows
\* more leaf entries than audit entries.
C22_LeafAndAuditChangeTogether ==
  [][ /\ (identity' # identity \/ access' # access) =>
           /\ Len(audit_log') = Len(audit_log) + 1
           /\ IsPrefix(audit_log, audit_log')
      /\ (calls' = calls + 1 /\ "raised" \in DOMAIN ret') =>
           /\ identity' = identity
           /\ access' = access
           /\ audit_log' = audit_log
      /\ LeafEntriesSinceConstruction' <= Len(audit_log') - 1
    ]_vars

\* C22 witness: a call has just raised on an account that had already been
\* changed by earlier calls
C22_Witness ==
  /\ "raised" \in DOMAIN ret
  /\ Len(permissions) >= 1
  /\ status = "PENDING"
  /\ Len(audit_log) = 3

\* the granted list holds no name twice
NoDuplicateGrant ==
  \A i, j \in 1..Len(permissions) : permissions[i] = permissions[j] => i = j

\* every GRANT_PERMISSION audit entry records verified = TRUE exactly when it
\* records the state VERIFIED
GrantEntriesAgree ==
  \A i \in 1..Len(audit_log) :
    audit_log[i].action = "GRANT_PERMISSION" =>
      (audit_log[i].details.verified <=> audit_log[i].verification_status = "VERIFIED")

\* C23: with no lock, calls of two threads on one account interleave and reach a
\* state that breaks an invariant of the single caller (a name twice in the
\* granted list); as long as no two calls overlapped, the invariants hold.
C23_InvariantsHoldOnlyWithoutOverlap ==
  ~threads.overlapped => (NoDuplicateGrant /\ GrantEntriesAgree)

\* C23 witness: two overlapping grants of one name have left it twice in the
\* list, each reported as a success
C23_Witness ==
  /\ ~NoDuplicateGrant
  /\ Active = {}
  /\ Len(audit_log) = 3
  /\ audit_log[2].success /\ audit_log[3].success

\* C24: an operation on one account changes nothing of the other account (state,
\* email, granted permissions, leaf histories, audit log), and no operation
\* changes the vocabularies of the class.
C24_AccountsIndependent ==
  [][ /\ \A a \in AccountIds :
           (calls' = calls + 1 /\ ret'.args[1] = a) =>
             \A b \in AccountIds \ {a} : accounts'.instances[b] = accounts.instances[b]
      /\ accounts'.AccountAccess = accounts.AccountAccess
      /\ accounts'.AccountAccess.ALLOWED_PERMISSIONS = ALLOWED_PERMISSIONS
      /\ accounts'.AccountAccess.RESTRICTED_PERMISSIONS = RESTRICTED_PERMISSIONS
    ]_vars

\* C24 witness: A has been verified and holds a permission while B is as
\* constructed
C24_Witness ==
  /\ accounts.instances["A"].identity.verification_status = "VERIFIED"
  /\ accounts.instances["B"].identity.verification_status = "UNVERIFIED"
  /\ accounts.instances["A"].access.permissions # <<>>
  /\ accounts.instances["B"] = NewAccount("bob")

\* C25: once the account is constructed its identity's state history is never
\* empty and holds the INITIALIZED entry of construction, and every operation
\* keeps the history it found as a prefix of the history it leaves.
C25_StateHistoryAppendOnly ==
  [][ Constructed' =>
        /\ Len(identity'.state_history) >= 1
        /\ \E i \in 1..Len(identity'.state_history) :
             identity'.state_history[i].action = "INITIALIZED"
        /\ Constructed => IsPrefix(identity.state_history, identity'.state_history)
    ]_vars

\* C25 witness: two later operations have added to the three entries of
\* construction, the third of which is INITIALIZED
C25_Witness ==
  /\ Constructed
  /\ Len(identity.state_history) = 5
  /\ identity.state_history[3].action = "INITIALIZED"
  /\ identity.state_history[5].action = "VERIFIED"

\* this step is the call add_permission(p, v) on the leaf
AddsWith(p, v) == calls' = calls + 1 /\ ret'.op = "add_permission" /\ ret'.args = <<p, v>>

\* C26: add_permission tests unknown name first, then duplicate, then the
\* verification requirement: a name outside ALLOWED is reported invalid, and a
\* restricted name that is already granted is reported as already granted even
\* when is_verified is False.
C26_RejectionOrder ==
  [][ \A p \in AccessPermissionInputs : \A v \in BOOLEAN :
        AddsWith(p, v) =>
          /\ p \notin ALLOWED_PERMISSIONS =>
               /\ ret'.value = <<FALSE, "Invalid permission: " \o p>>
               /\ Last(access'.permission_history).action = "ADD_FAILED"
          /\ (p \in ALLOWED_PERMISSIONS /\ AccountAccess_has_permission(access, p)) =>
               /\ ret'.value = <<FALSE, "Permission already granted: " \o p>>
               /\ Last(access'.permission_history).action = "ADD_DUPLICATE"
          /\ (p \in RESTRICTED_PERMISSIONS /\ ~AccountAccess_has_permission(access, p) /\ ~v) =>
               /\ ret'.value = <<FALSE, "Cannot grant '" \o p \o "' - user must be VERIFIED">>
               /\ Last(access'.permission_history).action = "ADD_DENIED"
          /\ ret'.value[1] = FALSE => access'.permissions = access.permissions
    ]_vars

\* C26 witness: TRANSFER, already granted, was just asked for again with
\* is_verified False and reported as already granted
C26_Witness ==
  /\ ret.op = "add_permission"
  /\ ret.args = <<"TRANSFER", FALSE>>
  /\ ret.value = <<FALSE, "Permission already granted: TRANSFER">>
  /\ Last(access.permission_history).action = "ADD_DUPLICATE"

\* C27: every add_permission and remove_permission call appends exactly one
\* entry to the grant history, has_permission appends none, and the history
\* holds one entry more than the number of mutating calls made so far.
C27_OneHistoryEntryPerCall ==
  [][ /\ (calls' = calls + 1 /\ ret'.op \in {"add_permission", "remove_permission"}) =>
           /\ Len(access'.permission_history) = Len(access.permission_history) + 1
           /\ IsPrefix(access.permission_history, access'.permission_history)
      /\ (calls' = calls /\ ret'.op = "has_permission") => access' = access
      /\ Len(access'.permission_history) = calls' + 1
    ]_vars

\* C27 witness: three calls, one on each refusing branch, have left four entries
C27_Witness ==
  /\ Len(access.permission_history) = 4
  /\ access.permission_history[2].action = "ADD_FAILED"
  /\ access.permission_history[3].action = "ADD_DENIED"
  /\ access.permission_history[4].action = "REMOVE_FAILED"

\* the permission list an entry of the grant history shows
SnapshotOf(self, entry) ==
  IF entry.current_permissions.kind = "own"
  THEN entry.current_permissions.items
  ELSE self.permissions

\* C28: the entry a call appends to the grant history shows the permission list
\* as that call left it, and no later add_permission, remove_permission or
\* clear_all_permissions changes what an earlier entry shows.
C28_SnapshotsAreCopies ==
  [][ /\ \A i \in 1..Len(access.permission_history) :
           /\ i <= Len(access'.permission_history)
           /\ SnapshotOf(access', access'.permission_history[i])
                = SnapshotOf(access, access.permission_history[i])
      /\ Len(access'.permission_history) > Len(access.permission_history) =>
           SnapshotOf(access', Last(access'.permission_history)) = access'.permissions
    ]_vars

\* C28 witness: the entry of a grant still shows the granted name after the
\* list was cleared
C28_Witness ==
  /\ Len(access.permission_history) = 4
  /\ SnapshotOf(access, access.permission_history[2]) = <<"VIEW_BALANCE">>
  /\ access.permission_history[3].action = "ADD_DENIED"
  /\ SnapshotOf(access, access.permission_history[3]) = <<"VIEW_BALANCE">>
  /\ access.permission_history[4].action = "CLEAR_ALL"
  /\ access.permissions = <<>>

\* C29: grant_permission hands add_permission the flag (state = VERIFIED) as
\* read when the call starts, PENDING counting as not verified, and records
\* {permission, verified} in the audit entry; in every GRANT_PERMISSION entry
\* verified is true exactly when the recorded state is VERIFIED.
C29_VerifiedFlagRecorded ==
  [][ /\ \A p \in VocabularyInputs :
           CallsWith("grant_permission", p) =>
             LET verified == (status = "VERIFIED")
                 added == add_permission(access, p, verified)
             IN  /\ ret'.value = added.result
                 /\ access' = added.self
                 /\ Last(audit_log').details = [permission |-> p, verified |-> verified]
      /\ GrantEntriesAgree'
    ]_vars

\* C29 witness: TRANSFER was just refused in PENDING, recorded with verified False
C29_Witness ==
  /\ ret.op = "grant_permission"
  /\ status = "PENDING"
  /\ ~Last(audit_log).success
  /\ Last(audit_log).details = [permission |-> "TRANSFER", verified |-> FALSE]
  /\ Last(audit_log).verification_status = "PENDING"

\* C30: the success flag of the audit entry an operation writes equals the
\* boolean the operation returns, for grant_permission, revoke_permission,
\* request_verification, verify_identity and update_email.
C30_AuditFlagIsReturnedFlag ==
  [][ CallsAny =>
        /\ ret'.op \in {"grant_permission", "revoke_permission", "request_verification",
                        "verify_identity", "update_email"}
        /\ Len(audit_log') = Len(audit_log) + 1
        /\ Last(audit_log').success = Flag(ret')
    ]_vars

\* C30 witness: a refused update_email follows a successful call, and the two
\* entries carry the two flags
C30_Witness ==
  /\ Constructed
  /\ ret.op = "update_email"
  /\ Flag(ret) = FALSE
  /\ Len(audit_log) = 3
  /\ audit_log[2].success
  /\ ~audit_log[3].success

\* C31: the verification_status an audit entry records is the identity's state
\* when the entry is appended, after the delegated operation has taken effect
\* (PENDING for a successful request_verification, VERIFIED for a successful
\* verify_identity), so the last audit entry always shows the current state.
C31_AuditRecordsStateAfterEffect ==
  [][ /\ Len(audit_log') > Len(audit_log) =>
           Last(audit_log').verification_status = status'
      /\ (Calls("request_verification") /\ ret'.value = TRUE) =>
           Last(audit_log').verification_status = "PENDING"
      /\ (Calls("verify_identity") /\ ret'.value = TRUE) =>
           Last(audit_log').verification_status = "VERIFIED"
      /\ Last(audit_log').verification_status = status'
    ]_vars

\* C31 witness: the entries of the two successful transitions record PENDING and
\* VERIFIED, and a later entry still shows VERIFIED
C31_Witness ==
  /\ Len(audit_log) = 4
  /\ audit_log[1].verification_status = "UNVERIFIED"
  /\ audit_log[2].action = "REQUEST_VERIFICATION" /\ audit_log[2].verification_status = "PENDING"
  /\ audit_log[3].action = "VERIFY_IDENTITY" /\ audit_log[3].verification_status = "VERIFIED"
  /\ audit_log[4].action = "GRANT_PERMISSION" /\ audit_log[4].verification_status = status

\* C32: has_permission, get_permissions, identity_status, get_audit_log and
\* get_full_report leave the verification state, the email, the granted list,
\* both leaf histories and the audit log as they were; the dict identity_status
\* returns shows the leaf state of the moment of the call, and what a dict
\* returned earlier shows is not changed by any later operation.
C32_ReadsHaveNoEffect ==
  [][ /\ (calls' = calls /\ ret'.op \in ReadOps) =>
           /\ identity' = identity
           /\ access' = access
           /\ audit_log' = audit_log
      /\ ret'.op = "identity_status" =>
           StatusShown(ret.value)' = [username |-> identity'.username,
                                      email |-> identity'.email,
                                      phone |-> identity'.phone_number,
                                      verification_status |-> status',
                                      permissions |-> permissions']
      /\ saved' = saved =>
           \A i \in 1..Len(saved) : StatusShown(saved[i])' = StatusShown(saved[i])
    ]_vars

\* C32 witness: a dict taken before two mutations still shows the state of
\* then, and the dict just returned shows the state of now
C32_Witness ==
  /\ Len(saved) = 1
  /\ StatusShown(saved[1]).verification_status = "UNVERIFIED"
  /\ StatusShown(saved[1]).permissions = <<>>
  /\ ret.op = "identity_status"
  /\ StatusShown(ret.value).verification_status = "PENDING"
  /\ StatusShown(ret.value).permissions = <<"VIEW_BALANCE">>
  /\ status = "PENDING"
  /\ permissions = <<"VIEW_BALANCE">>

\* C33: update_email with an address the validation accepts stores that address,
\* appends exactly one EMAIL_CHANGED entry naming the old and the new address to
\* the identity history, keeps the verification state, returns
\* (True, "Email updated successfully") and writes one UPDATE_EMAIL audit entry
\* with success True.
C33_EmailUpdateApplied ==
  [][ \A e \in EmailInputs :
        (CallsWith("update_email", e) /\ validate_email(e)) =>
          /\ identity'.email = e
          /\ identity'.state_history =
               Append(identity.state_history,
                      [action |-> "EMAIL_CHANGED",
                       description |-> <<"Email changed from ", identity.email, " to ", e>>,
                       status |-> status])
          /\ status' = status
          /\ ret'.value = <<TRUE, "Email updated successfully">>
          /\ AuditsOne(TRUE)
          /\ Last(audit_log').action = "UPDATE_EMAIL"
    ]_vars

\* C33 witness: the address was replaced while verification was pending, and the
\* history entry names both addresses
C33_Witness ==
  /\ Constructed
  /\ ret.op = "update_email"
  /\ ret.value = <<TRUE, "Email updated successfully">>
  /\ status = "PENDING"
  /\ identity.email = ret.args[1]
  /\ identity.email # InitEmail
  /\ Last(identity.state_history).action = "EMAIL_CHANGED"
  /\ Last(identity.state_history).description =
       <<"Email changed from ", InitEmail, " to ", identity.email>>

\* the PHONE_SET entries of the identity history
PhoneSetEntries ==
  {i \in 1..Len(identity.state_history) : identity.state_history[i].action = "PHONE_SET"}

\* C34: the phone is set once, by the constructor, to the constructor's
\* argument; no operation changes it afterwards, and every status read returns
\* that number.
C34_PhoneSetOnce ==
  [][ /\ (~Constructed /\ Constructed') => identity'.phone_number = ret'.args[3]
      /\ Constructed => identity'.phone_number = identity.phone_number
      /\ Constructed' =>
           /\ Cardinality(PhoneSetEntries') = 1
           /\ validate_phone(identity'.phone_number)
           /\ ret'.op = "identity_status" => ret'.value.phone = identity'.phone_number
    ]_vars

\* C34 witness: after two operations that changed the identity the status read
\* still returns the constructor's number
C34_Witness ==
  /\ Constructed
  /\ ret.op = "identity_status"
  /\ ret.value.phone = InitPhone
  /\ status = "PENDING"
  /\ identity.email # InitEmail
  /\ Len(identity.state_history) = 5

\* C35: request_verification, verify_identity and update_email leave the
\* granted list and the grant history as they were, and grant_permission and
\* revoke_permission leave the verification state, the email and the identity
\* history as they were.
C35_LeavesDecoupled ==
  [][ /\ (calls' = calls + 1
            /\ ret'.op \in {"request_verification", "verify_identity", "update_email"}) =>
           /\ access'.permissions = permissions
           /\ access'.permission_history = access.permission_history
      /\ (calls' = calls + 1 /\ ret'.op \in {"grant_permission", "revoke_permission"}) =>
           /\ status' = status
           /\ identity'.email = identity.email
           /\ identity'.state_history = identity.state_history
    ]_vars

\* C35 witness: the identity has been verified and a permission granted, each
\* leaf holding only the entries of its own operations
C35_Witness ==
  /\ status = "VERIFIED"
  /\ permissions = <<"TRANSFER">>
  /\ Len(identity.state_history) = 5
  /\ Len(access.permission_history) = 2
  /\ Len(audit_log) = 4

\* C36: whenever TRANSFER or WITHDRAW is in the granted list, the verification
\* state is VERIFIED.
C36_RestrictedHeldOnlyVerified ==
  (\E p \in RESTRICTED_PERMISSIONS : AccountAccess_has_permission(access, p)) =>
    status = "VERIFIED"

\* C36 witness: WITHDRAW was just granted, to an account whose state is
\* VERIFIED
C36_Witness ==
  /\ "WITHDRAW" \in Range(permissions)
  /\ status = "VERIFIED"
  /\ ret.op = "grant_permission"
  /\ ret.value[1] = TRUE

\* the audit entries of the given action that are marked successful
SuccessfulEntries(action) ==
  {i \in 1..Len(audit_log) : audit_log[i].action = action /\ audit_log[i].success}

\* UNVERIFIED < PENDING < VERIFIED
StatusRank(s) ==
  CASE s = "UNVERIFIED" -> 0
    [] s = "PENDING" -> 1
    [] s = "VERIFIED" -> 2

\* C37 as stated: the audit log holds at most one successful
\* REQUEST_VERIFICATION and at most one successful VERIFY_IDENTITY entry, the
\* successful VERIFY_IDENTITY comes after the successful REQUEST_VERIFICATION,
\* every successful GRANT_PERMISSION of TRANSFER or WITHDRAW comes after the
\* successful VERIFY_IDENTITY, and the recorded verification_status never
\* decreases along the log.
C37_AuditLogOrdering ==
  /\ Cardinality(SuccessfulEntries("REQUEST_VERIFICATION")) <= 1
  /\ Cardinality(SuccessfulEntries("VERIFY_IDENTITY")) <= 1
  /\ \A v \in SuccessfulEntries("VERIFY_IDENTITY") :
       \E r \in SuccessfulEntries("REQUEST_VERIFICATION") : r < v
  /\ \A g \in SuccessfulEntries("GRANT_PERMISSION") :
       audit_log[g].details.permission \in RESTRICTED_PERMISSIONS =>
         \E v \in SuccessfulEntries("VERIFY_IDENTITY") : v < g
  /\ \A i, j \in 1..Len(audit_log) :
       i <= j => StatusRank(audit_log[i].verification_status)
                   <= StatusRank(audit_log[j].verification_status)

\* C38: in every reachable state, request_verification followed by
\* verify_identity would leave the state VERIFIED; whenever verify_identity is
\* called right after request_verification the state is VERIFIED afterwards,
\* whatever the two calls returned; and a caller who keeps making both calls
\* ends with the account VERIFIED for good.
C38_VerifiedWithinTwoCalls ==
  /\ [](UserIdentity_verify(UserIdentity_request_verification(identity).self)
          .self.verification_status = "VERIFIED")
  /\ [][ (Calls("verify_identity") /\ ret.op = "request_verification") =>
           status' = "VERIFIED" ]_vars
  /\ <>[](status = "VERIFIED")

\* C38 witness: the account became VERIFIED by a verify_identity that followed a
\* refused request_verification
C38_Witness ==
  /\ status = "VERIFIED"
  /\ ret.op = "verify_identity"
  /\ ret.value = TRUE
  /\ Len(audit_log) = 4
  /\ audit_log[3].action = "REQUEST_VERIFICATION"
  /\ ~audit_log[3].success

\* the call before this one was op(p) and it succeeded
LastSucceeded(op, p) == ret.op = op /\ ret.args = <<p>> /\ ret.value[1] = TRUE

\* the granted list as the grant history recorded it before the newest entry
ListBeforeLastEntry ==
  SnapshotOf(access, access.permission_history[Len(access.permission_history) - 1])

\* C39: right after a successful grant_permission(p), revoke_permission(p)
\* succeeds and leaves the granted list exactly as it was before the grant, and
\* another grant_permission(p) fails; right after a successful
\* revoke_permission(p), another revoke_permission(p) fails.
C39_GrantRevokeRoundTrip ==
  [][ \A p \in VocabularyInputs :
        /\ (LastSucceeded("grant_permission", p) /\ CallsWith("revoke_permission", p)) =>
             /\ ret'.value[1] = TRUE
             /\ permissions' = ListBeforeLastEntry
             /\ permissions = Append(permissions', p)
        /\ (LastSucceeded("grant_permission", p) /\ CallsWith("grant_permission", p)) =>
             /\ ret'.value[1] = FALSE
             /\ permissions' = permissions
        /\ (LastSucceeded("revoke_permission", p) /\ CallsWith("revoke_permission", p)) =>
             /\ ret'.value[1] = FALSE
             /\ permissions' = permissions
    ]_vars

\* C39 witness: a permission granted on top of another one was revoked by the
\* next call, and the list is the one of before the grant
C39_Witness ==
  /\ ret.op = "revoke_permission"
  /\ ret.value[1] = TRUE
  /\ Len(audit_log) = 4
  /\ audit_log[3].action = "GRANT_PERMISSION"
  /\ audit_log[3].success
  /\ audit_log[3].details.permission = ret.args[1]
  /\ permissions = <<"DEPOSIT">>
  /\ SnapshotOf(access, access.permission_history[2]) = permissions

\* the audit entries whose action is one of the given tags
AuditEntriesOf(actions) ==
  {i \in 1..Len(audit_log) : audit_log[i].action \in actions}

\* C40: the grant history holds one entry more than the audit log holds
\* GRANT_PERMISSION and REVOKE_PERMISSION entries; the identity history holds
\* the three entries of construction (EMAIL_CHANGED, PHONE_SET, INITIALIZED,
\* each with status UNVERIFIED) and one entry per REQUEST_VERIFICATION entry,
\* per VERIFY_IDENTITY entry and per successful UPDATE_EMAIL entry of the
\* audit log.
C40_HistoriesInStep ==
  Constructed =>
    /\ Len(access.permission_history)
         = 1 + Cardinality(AuditEntriesOf({"GRANT_PERMISSION", "REVOKE_PERMISSION"}))
    /\ Len(identity.state_history)
         = 3 + Cardinality(AuditEntriesOf({"REQUEST_VERIFICATION", "VERIFY_IDENTITY"}))
             + Cardinality(SuccessfulEntries("UPDATE_EMAIL"))
    /\ [i \in 1..3 |-> identity.state_history[i].action]
         = <<"EMAIL_CHANGED", "PHONE_SET", "INITIALIZED">>
    /\ \A i \in 1..3 : identity.state_history[i].status = "UNVERIFIED"

\* C40 witness: a refused update_email left no entry in the identity history,
\* a request_verification left one
C40_Witness ==
  /\ Constructed
  /\ Len(audit_log) = 3
  /\ audit_log[2].action = "UPDATE_EMAIL"
  /\ ~audit_log[2].success
  /\ audit_log[3].action = "REQUEST_VERIFICATION"
  /\ Len(identity.state_history) = 4
  /\ Len(access.permission_history) = 1

====
